---- MODULE Spec2Model ----
(***************************************************************************)
(* Model of k-eval's EvaluationRunner (evaluation/application/runner.py):  *)
(* run() starts one asyncio task per (sample, condition, repetition)       *)
(* triple inside an asyncio.TaskGroup; every task executes                 *)
(* _run_one_triple, which holds an asyncio.Semaphore during each attempt   *)
(* and sleeps outside of it between attempts.                              *)
(*                                                                         *)
(* The event loop is modelled as asyncio runs it: a FIFO queue `ready` of  *)
(* callbacks (task steps, TaskGroup done-callbacks, the wake-up of run()   *)
(* itself), of which one runs at a time (`cur`) until its next suspension. *)
(***************************************************************************)
EXTENDS Integers, Sequences, FiniteSets, TLC

\* ---------------------------------------------------------------- bounds
MaxSamples == 3
MaxConditions == 2
MaxReps == 2
MaxConcurrent == 2
\* Trials of the grid plus attempts allowed to each of them; also the
\* attempts allowed to the trial of a grid of one.
MaxLoad == 4
MaxToolCalls == 2
\* Trials plus attempts allowed to each, in the runs checked for termination.
MaxFairLoad == 4
\* Longest list of runs handed to aggregate().
MaxRuns == 3
\* Largest done or in-flight count the observer is driven to by events
\* sent to it directly.
MaxCount == 2

\* ------------------------------------------------------- input universes
\* str(n) for n >= 0, a string being the sequence of its decimal digits.
RECURSIVE Str(_)
Str(n) == IF n < 10 THEN <<n>> ELSE Append(Str(n \div 10), n % 10)

\* The dataset: sample i of the list carries sample_idx str(i + 8), so that
\* the list order ("9", "10", "11", ...) is not the order of the strings.
Dataset(n) == [i \in 1..n |-> Str(i + 8)]

\* Condition names are modelled by their alphabetical rank.
ConditionConfig(name, use, success) ==
    [name |-> name,
     require_mcp_tool_use |-> use,
     require_mcp_tool_success |-> success]

\* config.conditions with n entries, declared in descending order of name,
\* none of them requiring tool use.
PlainConditions(n) == [k \in 1..n |-> ConditionConfig(n + 1 - k, FALSE, FALSE)]

\* config.conditions with one entry, in every combination of the two
\* requirements.
GatedConditions == {<<ConditionConfig(1, u, s)>> : u, s \in BOOLEAN}

\* The name "Overall", which is also the key of the progress observer's
\* row of totals.
Overall == 3

InitialBackoffs == {2}

BackoffMultipliers == {3}

GridSize(c) == Len(c.samples) * Len(c.conditions) * c.num_repetitions

\* Runs over grids of conditions without gates.
GridConfigs ==
    {c \in [samples : {Dataset(n) : n \in 0..MaxSamples},
            conditions : {PlainConditions(n) : n \in 1..MaxConditions},
            num_repetitions : 1..MaxReps,
            max_concurrent : 1..MaxConcurrent,
            max_attempts : 1..MaxLoad,
            initial_backoff_seconds : InitialBackoffs,
            backoff_multiplier : BackoffMultipliers] :
        GridSize(c) = 1 \/ GridSize(c) + c.max_attempts <= MaxLoad}

\* Runs of a single trial, in which the agent makes tool calls.
GateConfigs ==
    [samples : {Dataset(1)},
     conditions : GatedConditions,
     num_repetitions : {1},
     max_concurrent : {1},
     max_attempts : 1..MaxLoad,
     initial_backoff_seconds : InitialBackoffs,
     backoff_multiplier : BackoffMultipliers]

\* Runs of a single trial of a condition that is named "Overall".
OverallConfigs ==
    [samples : {Dataset(1)},
     conditions : {<<ConditionConfig(Overall, FALSE, FALSE)>>},
     num_repetitions : {1},
     max_concurrent : {1},
     max_attempts : {1},
     initial_backoff_seconds : InitialBackoffs,
     backoff_multiplier : BackoffMultipliers]

Configs == GridConfigs \cup GateConfigs \cup OverallConfigs

\* Runs followed up to the creation of their tasks: every shape of grid.
CreationConfigs ==
    [samples : {Dataset(n) : n \in 0..MaxSamples},
     conditions : {PlainConditions(n) : n \in 1..MaxConditions},
     num_repetitions : 1..MaxReps,
     max_concurrent : 1..MaxConcurrent,
     max_attempts : 1..MaxLoad,
     initial_backoff_seconds : InitialBackoffs,
     backoff_multiplier : BackoffMultipliers]

\* Runs checked for termination: one condition, one repetition.
FairConfigs ==
    {c \in [samples : {Dataset(n) : n \in 0..MaxFairLoad},
            conditions : {PlainConditions(1)},
            num_repetitions : {1},
            max_concurrent : 1..MaxConcurrent,
            max_attempts : 1..MaxFairLoad,
            initial_backoff_seconds : InitialBackoffs,
            backoff_multiplier : BackoffMultipliers] :
        GridSize(c) + c.max_attempts <= MaxFairLoad}

\* ------------------------------------------------------------ TrialGrid
\* As TripleAt, every task being handed repetition index 0.
TripleAtFixedRepetition(c, i) ==
    LET nC == Len(c.conditions)
        nR == c.num_repetitions
        s  == ((i - 1) \div (nC * nR)) + 1
        k  == (((i - 1) \div nR) % nC) + 1
    IN  [sample_idx |-> c.samples[s],
         condition |-> c.conditions[k].name,
         repetition_index |-> 0]

\* As TripleAt, the loop over the conditions being the outermost.
TripleAtConditionsOutermost(c, i) ==
    LET nS == Len(c.samples)
        nR == c.num_repetitions
        k  == ((i - 1) \div (nS * nR)) + 1
        s  == (((i - 1) \div nR) % nS) + 1
    IN  [sample_idx |-> c.samples[s],
         condition |-> c.conditions[k].name,
         repetition_index |-> (i - 1) % nR]

\* The i-th task created by the three nested loops of run().
TripleAt(c, i) ==
    LET nC == Len(c.conditions)
        nR == c.num_repetitions
        s  == ((i - 1) \div (nC * nR)) + 1
        k  == (((i - 1) \div nR) % nC) + 1
    IN  [sample_idx |-> c.samples[s],
         condition |-> c.conditions[k].name,
         repetition_index |-> (i - 1) % nR]

\* The ConditionConfig passed to the i-th task.
ConditionAt(c, i) ==
    c.conditions[(((i - 1) \div c.num_repetitions) % Len(c.conditions)) + 1]

TrialGrid(c) == [i \in 1..GridSize(c) |-> TripleAt(c, i)]

\* ------------------------------------------------------------- sort key
\* Python's str comparison: lexicographic by character, a proper prefix
\* is smaller.
RECURSIVE StrLess(_, _)
StrLess(a, b) ==
    IF b = <<>> THEN FALSE
    ELSE IF a = <<>> THEN TRUE
    ELSE IF Head(a) # Head(b) THEN Head(a) < Head(b)
    ELSE StrLess(Tail(a), Tail(b))

\* Tuple comparison of (sample_idx, condition, repetition_index).
KeyLess(x, y) ==
    \/ StrLess(x.sample_idx, y.sample_idx)
    \/ /\ x.sample_idx = y.sample_idx
       /\ \/ x.condition < y.condition
          \/ /\ x.condition = y.condition
             /\ x.repetition_index < y.repetition_index

RECURSIVE InsertByKey(_, _)
InsertByKey(r, sorted) ==
    IF sorted = <<>> THEN <<r>>
    ELSE IF KeyLess(r.id, Head(sorted).id) THEN <<r>> \o sorted
    ELSE <<Head(sorted)>> \o InsertByKey(r, Tail(sorted))

\* As SortRuns, the sort being left out.
SortRunsSkipped(runs) == runs

\* list.sort(key=...): stable, ascending.
RECURSIVE SortRuns(_)
SortRuns(runs) ==
    IF runs = <<>> THEN <<>>
    ELSE InsertByKey(runs[Len(runs)], SortRuns(SubSeq(runs, 1, Len(runs) - 1)))

\* ---------------------------------------------------------------- state
VARIABLES
    cfg,              \* EvalConfig + dataset handed to the runner
    runState,         \* "new", "running", "returned", "raised", or a
                      \* load failure: "config_failed", "load_failed"
    ready,            \* event loop's FIFO of scheduled callbacks
    cur,              \* task whose step is executing (0: none)
    pc,               \* per task: position in _run_one_triple
    attempt,          \* per task: loop variable `attempt`
    backoff,          \* per task: local `backoff`
    mustCancel,       \* per task: a CancelledError is thrown at its next step
    agent_result,     \* per task: local `agent_result`, with its attempt
    semValue,         \* sem._value
    semWaiters,       \* sem._waiters
    held,             \* tasks inside the `async with sem` block
    results,          \* the shared `results` list
    completed_count,  \* completed_count[0]
    tgTasks,          \* TaskGroup._tasks
    tgErrors,         \* TaskGroup._errors
    tgAborting,       \* TaskGroup._aborting
    parentFut,        \* TaskGroup._on_completed_fut: "pending", "done", "cancelled"
    raised,           \* what run() raised
    summary,          \* RunSummary.runs returned by run()
    events,           \* per task: observer notifications about it, in order
    agentCalls,       \* per task: agent.ask invocations
    judgeCalls,       \* per task: judge.score invocations
    retryLog,         \* per task: sample_condition_retry events
    sleepLog,         \* per task: durations passed to asyncio.sleep
    failure,          \* per task: exception its task ended with
    failOrder,        \* tasks in the order their terminal failure was raised
    heldAtFailure,    \* tasks inside the semaphore block at the first of these
    progressAt,       \* per task: `completed` of its evaluation_progress event
    runEvents,        \* evaluation_started / evaluation_completed events
    progressLog,      \* evaluation_progress events, in the order emitted
    observer,         \* ProgressEvaluationObserver: _done, _inflight, _total
    aggregate_runs,   \* aggregate(): its argument `runs`
    aggregate_results,\* aggregate(): the list it returned
    aggregate_returned \* aggregate() has been called and has returned

cfgVars  == <<cfg>>
loopVars == <<ready, cur>>
taskVars == <<pc, attempt, backoff, mustCancel, agent_result>>
semVars  == <<semValue, semWaiters, held>>
tgVars   == <<tgTasks, tgErrors, tgAborting, parentFut>>
runVars  == <<runState, raised, summary, runEvents>>
resVars  == <<results, completed_count, progressAt>>
obsVars  == <<events, agentCalls, judgeCalls, retryLog, sleepLog,
              failure, failOrder, heldAtFailure, progressLog, observer>>
aggVars  == <<aggregate_runs, aggregate_results, aggregate_returned>>

vars == <<cfg, runState, ready, cur, pc, attempt, backoff, mustCancel,
          agent_result, semValue, semWaiters, held, results, completed_count,
          tgTasks, tgErrors, tgAborting, parentFut, raised, summary,
          events, agentCalls, judgeCalls, retryLog, sleepLog, failure,
          failOrder, heldAtFailure, progressAt, runEvents, progressLog,
          observer, aggregate_runs, aggregate_results, aggregate_returned>>

Trials == 1..GridSize(cfg)

Triple(t) == TripleAt(cfg, t)

Condition(t) == ConditionAt(cfg, t)

NoException == [task |-> 0, kind |-> "none", retriable |-> FALSE, attempt |-> 0]

NoAgentResult == [attempt |-> 0, tool_calls |-> <<>>]

NoRaise == [is_group |-> FALSE, exceptions |-> <<>>]

StepHandle(t) == [kind |-> "step", task |-> t]

DoneHandle(t) == [kind |-> "done", task |-> t]

ParentHandle == [kind |-> "parent", task |-> 0]

InReady(h) == \E i \in 1..Len(ready) : ready[i] = h

Terminal == {"done", "failed", "cancelled"}

\* ------------------------------------------- ProgressEvaluationObserver
\* The observer's dictionaries before evaluation_started and after
\* evaluation_completed.
NoCounters == [done |-> <<>>, inflight |-> <<>>, total |-> <<>>]

\* `if key in d: d[key] += 1`
Incremented(d, key) ==
    IF key \in DOMAIN d THEN [d EXCEPT ![key] = @ + 1] ELSE d

\* As Decremented, without the floor at 0.
DecrementedBelowZero(d, key) ==
    IF key \in DOMAIN d THEN [d EXCEPT ![key] = @ - 1] ELSE d

\* `if key in d: d[key] = max(0, d[key] - 1)`
Decremented(d, key) ==
    IF key \in DOMAIN d
    THEN [d EXCEPT ![key] = IF @ - 1 > 0 THEN @ - 1 ELSE 0]
    ELSE d

\* evaluation_started: the totals of every condition, then of "Overall".
ObserverStarted(names, total_samples, total_conditions, num_repetitions) ==
    LET keys == {names[i] : i \in 1..Len(names)} \cup {Overall}
    IN  [done |-> [k \in keys |-> 0],
         inflight |-> [k \in keys |-> 0],
         total |-> [k \in keys |->
                     IF k = Overall
                     THEN total_samples * total_conditions * num_repetitions
                     ELSE total_samples * num_repetitions]]

\* sample_condition_started
ObserverTrialStarted(o, condition) ==
    [o EXCEPT !.inflight = Incremented(Incremented(@, condition), Overall)]

\* sample_condition_retry
ObserverRetry(o, condition) ==
    [o EXCEPT !.inflight = Decremented(Decremented(@, condition), Overall)]

\* evaluation_progress
ObserverProgress(o, condition) ==
    [o EXCEPT !.done = Incremented(Incremented(@, condition), Overall),
              !.inflight = Decremented(Decremented(@, condition), Overall)]

RunnerInit(configs) ==
    /\ cfg \in configs
    /\ runState = "new"
    /\ ready = <<>>
    /\ cur = 0
    /\ pc = [t \in Trials |-> "uncreated"]
    /\ attempt = [t \in Trials |-> 0]
    /\ backoff = [t \in Trials |-> 0]
    /\ mustCancel = [t \in Trials |-> FALSE]
    /\ agent_result = [t \in Trials |-> NoAgentResult]
    /\ semValue = 0
    /\ semWaiters = <<>>
    /\ held = {}
    /\ results = <<>>
    /\ completed_count = 0
    /\ tgTasks = {}
    /\ tgErrors = <<>>
    /\ tgAborting = FALSE
    /\ parentFut = "none"
    /\ raised = NoRaise
    /\ summary = <<>>
    /\ events = [t \in Trials |-> <<>>]
    /\ agentCalls = [t \in Trials |-> 0]
    /\ judgeCalls = [t \in Trials |-> 0]
    /\ retryLog = [t \in Trials |-> <<>>]
    /\ sleepLog = [t \in Trials |-> <<>>]
    /\ failure = [t \in Trials |-> NoException]
    /\ failOrder = <<>>
    /\ heldAtFailure = {}
    /\ progressAt = [t \in Trials |-> 0]
    /\ runEvents = <<>>
    /\ progressLog = <<>>
    /\ observer = NoCounters

\* aggregate() has not been called.
AggregateIdle ==
    /\ aggregate_runs = <<>>
    /\ aggregate_results = <<>>
    /\ aggregate_returned = FALSE

InitWith(configs) == RunnerInit(configs) /\ AggregateIdle

Init == InitWith(Configs)

\* ------------------------------------------------------ asyncio.Semaphore
\* As SemLocked, the test of the counter being left out.
SemLockedIgnoresValue(value, waiters) ==
    \E i \in 1..Len(waiters) : waiters[i].state # "cancelled"

\* Semaphore.locked()
SemLocked(value, waiters) ==
    \/ value = 0
    \/ \E i \in 1..Len(waiters) : waiters[i].state # "cancelled"

FirstPending(waiters) ==
    IF \E i \in 1..Len(waiters) : waiters[i].state = "pending"
    THEN CHOOSE i \in 1..Len(waiters) :
            /\ waiters[i].state = "pending"
            /\ \A j \in 1..(i - 1) : waiters[j].state # "pending"
    ELSE 0

\* Semaphore._wake_up_next(): hand a permit to the first waiter that is
\* not done; `woken` is that waiter's task (0: nobody).
WakeUpNext(value, waiters) ==
    LET i == FirstPending(waiters)
    IN  IF i = 0
        THEN [value |-> value, waiters |-> waiters, woken |-> 0]
        ELSE [value |-> value - 1,
              waiters |-> [waiters EXCEPT ![i].state = "woken"],
              woken |-> waiters[i].task]

\* As SemRelease, no waiter being woken.
SemReleaseWithoutWakeup(value, waiters) ==
    [value |-> value + 1, waiters |-> waiters, woken |-> 0]

\* Semaphore.release()
SemRelease(value, waiters) == WakeUpNext(value + 1, waiters)

RemoveWaiter(waiters, t) ==
    SelectSeq(waiters, LAMBDA w : w.task # t)

WaiterState(t) ==
    IF \E i \in 1..Len(semWaiters) : semWaiters[i].task = t
    THEN semWaiters[CHOOSE i \in 1..Len(semWaiters) : semWaiters[i].task = t].state
    ELSE "none"

\* Callbacks call_soon()-ed by waking `woken`'s future.
WakeHandles(woken) == IF woken = 0 THEN <<>> ELSE <<StepHandle(woken)>>

\* ---------------------------------------------------------- load failures
\* A KEvalError of the loaders: neither sets `retriable`.
LoadError(kind) ==
    [task |-> 0, kind |-> kind, retriable |-> FALSE, attempt |-> 0]

\* The `run` command fails to load the configuration: it prints the error
\* and exits with code 1 ahead of building the runner; run() is not called.
ConfigLoadFails ==
    /\ runState = "new"
    /\ UNCHANGED aggVars
    /\ runState' = "config_failed"
    /\ raised' = [is_group |-> FALSE, exceptions |-> <<LoadError("config")>>]
    /\ UNCHANGED <<cfg, summary, runEvents>>
    /\ UNCHANGED <<loopVars, taskVars, semVars, tgVars, resVars>>
    /\ UNCHANGED <<events, agentCalls, judgeCalls, retryLog, sleepLog,
                   failure, failOrder, heldAtFailure, progressLog, observer>>

\* As EventsBeforeLoad, evaluation_started being emitted ahead of the load.
EventsBeforeLoadWithStarted ==
    <<[event |-> "evaluation_started",
       total_samples |-> 0,
       total_conditions |-> Len(cfg.conditions),
       num_repetitions |-> cfg.num_repetitions,
       max_concurrent |-> cfg.max_concurrent]>>

\* Lines 53-54: nothing is told to the observer ahead of the load.
EventsBeforeLoad == <<>>

\* run() fails in dataset_loader.load: the DatasetLoadError leaves run()
\* from line 54, outside every try block.
DatasetLoadFails ==
    /\ runState = "new"
    /\ UNCHANGED aggVars
    /\ runState' = "load_failed"
    /\ runEvents' = runEvents \o EventsBeforeLoad
    /\ raised' = [is_group |-> FALSE, exceptions |-> <<LoadError("dataset")>>]
    /\ UNCHANGED <<cfg, summary>>
    /\ UNCHANGED <<loopVars, taskVars, semVars, tgVars, resVars>>
    /\ UNCHANGED <<events, agentCalls, judgeCalls, retryLog, sleepLog,
                   failure, failOrder, heldAtFailure, progressLog, observer>>

\* ------------------------------------------------------------ run(), I
\* run() up to the first suspension in TaskGroup.__aexit__: emits
\* evaluation_started, builds the shared state and creates every task.
\* (A group without tasks is left at once: run() goes on to its return.)
RunStart ==
    /\ runState = "new"
    /\ UNCHANGED aggVars
    /\ runState' = "running"
    /\ runEvents' = Append(runEvents,
            [event |-> "evaluation_started",
             total_samples |-> Len(cfg.samples),
             total_conditions |-> Len(cfg.conditions),
             num_repetitions |-> cfg.num_repetitions,
             max_concurrent |-> cfg.max_concurrent])
    /\ results' = <<>>
    /\ semValue' = cfg.max_concurrent
    /\ semWaiters' = <<>>
    /\ completed_count' = 0
    /\ pc' = [t \in Trials |-> "new"]
    /\ ready' = IF Trials = {} THEN <<ParentHandle>>
                 ELSE [t \in Trials |-> StepHandle(t)]
    /\ tgTasks' = Trials
    /\ parentFut' = IF Trials = {} THEN "done" ELSE "pending"
    /\ UNCHANGED <<cfg, cur, attempt, backoff, mustCancel, agent_result, held,
                   tgErrors, tgAborting, raised, summary, progressAt>>
    /\ observer' = ObserverStarted(
            [k \in 1..Len(cfg.conditions) |-> cfg.conditions[k].name],
            Len(cfg.samples), Len(cfg.conditions), cfg.num_repetitions)
    /\ UNCHANGED <<events, agentCalls, judgeCalls, retryLog, sleepLog,
                   failure, failOrder, heldAtFailure, progressLog>>

\* The event loop runs the callback at the head of `ready`.
Dispatched(h) == cur = 0 /\ ready # <<>> /\ Head(ready) = h

\* ------------------------------------------------------ _run_one_triple
\* First step of a task: locals of lines 145-147, first loop iteration.
TaskStart(t) ==
    /\ Dispatched(StepHandle(t))
    /\ UNCHANGED aggVars
    /\ pc[t] = "new"
    /\ ~mustCancel[t]
    /\ ready' = Tail(ready)
    /\ cur' = t
    /\ backoff' = [backoff EXCEPT ![t] = cfg.initial_backoff_seconds]
    /\ attempt' = [attempt EXCEPT ![t] = 1]
    /\ pc' = [pc EXCEPT ![t] = "acquire"]
    /\ UNCHANGED <<cfg, mustCancel, agent_result>>
    /\ UNCHANGED <<semVars, tgVars, runVars, resVars, obsVars>>

\* `async with sem`: Semaphore.acquire() up to its `await fut`.
Acquire(t) ==
    /\ cur = t
    /\ UNCHANGED aggVars
    /\ pc[t] = "acquire"
    /\ IF ~SemLocked(semValue, semWaiters)
       THEN /\ semValue' = semValue - 1
            /\ held' = held \cup {t}
            /\ pc' = [pc EXCEPT ![t] = "in_sem"]
            /\ UNCHANGED <<semWaiters, cur>>
       ELSE /\ semWaiters' = Append(semWaiters, [task |-> t, state |-> "pending"])
            /\ pc' = [pc EXCEPT ![t] = "sem_wait"]
            /\ cur' = 0
            /\ UNCHANGED <<semValue, held>>
    /\ UNCHANGED <<cfg, ready, attempt, backoff, mustCancel, agent_result>>
    /\ UNCHANGED <<tgVars, runVars, resVars, obsVars>>

\* Semaphore.acquire() after `await fut` returned: the waiter leaves the
\* queue and passes a spare permit on.
SemWakeup(t) ==
    /\ Dispatched(StepHandle(t))
    /\ UNCHANGED aggVars
    /\ pc[t] = "sem_wait"
    /\ ~mustCancel[t]
    /\ LET rest == RemoveWaiter(semWaiters, t)
           w == IF semValue > 0 THEN WakeUpNext(semValue, rest)
                ELSE [value |-> semValue, waiters |-> rest, woken |-> 0]
       IN  /\ semValue' = w.value
           /\ semWaiters' = w.waiters
           /\ ready' = Tail(ready) \o WakeHandles(w.woken)
    /\ held' = held \cup {t}
    /\ pc' = [pc EXCEPT ![t] = "in_sem"]
    /\ cur' = t
    /\ UNCHANGED <<cfg, attempt, backoff, mustCancel, agent_result>>
    /\ UNCHANGED <<tgVars, runVars, resVars, obsVars>>

\* As IsFirstAttempt, the first retry counting as a first attempt too.
IsFirstAttemptOrSecond(att) == att <= 2

\* As IsFirstAttempt, the test of the attempt being left out.
IsFirstAttemptAlways(att) == TRUE

\* Line 153: `if attempt == 1`.
IsFirstAttempt(att) == att = 1

\* Lines 153-167: started notification on the first attempt, a new agent,
\* agent.ask(); the call either suspends the task or completes at once.
StartAttempt(t) ==
    /\ cur = t
    /\ UNCHANGED aggVars
    /\ pc[t] = "in_sem"
    /\ events' = [events EXCEPT ![t] =
            IF IsFirstAttempt(attempt[t]) THEN Append(@, "started") ELSE @]
    /\ agentCalls' = [agentCalls EXCEPT ![t] = @ + 1]
    /\ \E suspends \in BOOLEAN :
        IF suspends
        THEN pc' = [pc EXCEPT ![t] = "agent_wait"] /\ cur' = 0
        ELSE pc' = [pc EXCEPT ![t] = "agent_ret"] /\ cur' = t
    /\ UNCHANGED <<cfg, ready, attempt, backoff, mustCancel, agent_result>>
    /\ observer' = IF IsFirstAttempt(attempt[t])
                    THEN ObserverTrialStarted(observer, Condition(t).name)
                    ELSE observer
    /\ UNCHANGED <<judgeCalls, retryLog, sleepLog, failure, failOrder,
                   heldAtFailure, progressLog>>
    /\ UNCHANGED <<semVars, tgVars, runVars, resVars>>

\* The awaited capability call finishes: its future wakes the task.
CallCompletes(t) ==
    /\ cur = 0
    /\ UNCHANGED aggVars
    /\ pc[t] \in {"agent_wait", "judge_wait"}
    /\ ~mustCancel[t]
    /\ ~InReady(StepHandle(t))
    /\ ready' = Append(ready, StepHandle(t))
    /\ UNCHANGED <<cfg, cur>>
    /\ UNCHANGED <<taskVars, semVars, tgVars, runVars, resVars, obsVars>>

AgentResume(t) ==
    /\ Dispatched(StepHandle(t))
    /\ UNCHANGED aggVars
    /\ pc[t] = "agent_wait"
    /\ ~mustCancel[t]
    /\ ready' = Tail(ready)
    /\ cur' = t
    /\ pc' = [pc EXCEPT ![t] = "agent_ret"]
    /\ UNCHANGED <<cfg, attempt, backoff, mustCancel, agent_result>>
    /\ UNCHANGED <<semVars, tgVars, runVars, resVars, obsVars>>

JudgeResume(t) ==
    /\ Dispatched(StepHandle(t))
    /\ UNCHANGED aggVars
    /\ pc[t] = "judge_wait"
    /\ ~mustCancel[t]
    /\ ready' = Tail(ready)
    /\ cur' = t
    /\ pc' = [pc EXCEPT ![t] = "judge_ret"]
    /\ UNCHANGED <<cfg, attempt, backoff, mustCancel, agent_result>>
    /\ UNCHANGED <<semVars, tgVars, runVars, resVars, obsVars>>

\* ------------------------------------------------- capability outcomes
\* tool_calls: the tool_error flag of every tool call of the agent's turns.
ToolCallLists == UNION {[1..k -> BOOLEAN] : k \in 0..MaxToolCalls}

\* The agents of the runs of a grid make no tool call.
AgentToolCalls == IF cfg \in GateConfigs THEN ToolCallLists ELSE {<<>>}

\* agent.ask() raises AgentInvocationError(retriable) or returns a result.
AgentOutcomes ==
    {[ok |-> FALSE, retriable |-> b, tool_calls |-> <<>>] : b \in BOOLEAN}
    \cup {[ok |-> TRUE, retriable |-> FALSE, tool_calls |-> q] : q \in AgentToolCalls}

\* judge.score() raises JudgeInvocationError(retriable) or returns a result.
JudgeOutcomes ==
    {[ok |-> FALSE, retriable |-> b] : b \in BOOLEAN}
    \cup {[ok |-> TRUE, retriable |-> FALSE]}

\* As GateFailure, neither requirement being checked.
GateFailureNever(condition, tool_calls) == "none"

\* As GateFailure, the tool-use requirement being left unchecked.
GateFailureWithoutUseGate(condition, tool_calls) ==
    IF /\ condition.require_mcp_tool_success
       /\ tool_calls # <<>>
       /\ \A i \in 1..Len(tool_calls) : tool_calls[i]
    THEN "tool_success_absent"
    ELSE "none"

\* As GateFailure, the tool-success requirement failing an attempt without
\* tool calls too.
GateFailureOnNoCalls(condition, tool_calls) ==
    IF condition.require_mcp_tool_use /\ tool_calls = <<>>
    THEN "tool_use_absent"
    ELSE IF /\ condition.require_mcp_tool_success
            /\ \A i \in 1..Len(tool_calls) : tool_calls[i]
         THEN "tool_success_absent"
         ELSE "none"

\* Lines 175 and 191-195: which gate, if any, rejects the agent result.
GateFailure(condition, tool_calls) ==
    IF condition.require_mcp_tool_use /\ tool_calls = <<>>
    THEN "tool_use_absent"
    ELSE IF /\ condition.require_mcp_tool_success
            /\ tool_calls # <<>>
            /\ \A i \in 1..Len(tool_calls) : tool_calls[i]
         THEN "tool_success_absent"
         ELSE "none"

Exception(t, kind, retriable) ==
    [task |-> t, kind |-> kind, retriable |-> retriable, attempt |-> attempt[t]]

\* As ShouldGiveUp, giving up one attempt early.
ShouldGiveUpOneEarly(exc, att) == ~exc.retriable \/ att + 1 >= cfg.max_attempts

\* As ShouldGiveUp, the retriable flag being ignored.
ShouldGiveUpAtLastAttempt(exc, att) == att = cfg.max_attempts

\* Line 249: the failure is terminal for the trial.
ShouldGiveUp(exc, att) == ~exc.retriable \/ att = cfg.max_attempts

\* As LeaveSemBeforeSleep, the sleep being inside the `async with sem` block.
KeepSemDuringSleep(t) ==
    [value |-> semValue, waiters |-> semWaiters, woken |-> 0, held |-> held]

\* Line 276: leaving the `async with sem` block ahead of the backoff sleep.
LeaveSemBeforeSleep(t) ==
    LET rel == SemRelease(semValue, semWaiters)
    IN  [value |-> rel.value, waiters |-> rel.waiters, woken |-> rel.woken,
         held |-> held \ {t}]

\* As NextCompleted, the increment being left out.
NextCompletedStuck(count) == count

\* Lines 239 and 258: `completed_count[0] += 1`.
NextCompleted(count) == count + 1

\* Lines 240-245 and 259-264: the evaluation_progress event of trial t.
ProgressEvent(t) ==
    [task |-> t,
     condition |-> Condition(t).name,
     completed |-> NextCompleted(completed_count),
     total |-> GridSize(cfg)]

\* As FailureNotifications, progress being notified ahead of the failure.
FailureNotificationsProgressFirst == <<"progress", "failed">>

\* As FailureNotifications, progress being notified for successes only.
FailureNotificationsWithoutProgress == <<"failed">>

\* Lines 250-264: what the observer is told of a terminal failure.
FailureNotifications == <<"failed", "progress">>

\* As RetryNotifications, only the first retry of a trial being notified.
RetryNotificationsFirstOnly(t, exc) ==
    IF attempt[t] = 1
    THEN <<[attempt |-> attempt[t], reason |-> exc,
            backoff_seconds |-> backoff[t]]>>
    ELSE <<>>

\* Lines 267-275: the sample_condition_retry notification of the attempt.
RetryNotifications(t, exc) ==
    <<[attempt |-> attempt[t], reason |-> exc, backoff_seconds |-> backoff[t]]>>

\* Lines 248-277: the `except KEvalError` handler, reached with exception
\* `exc` after the notifications `pre` of the failing gate.
HandleException(t, exc, pre) ==
    IF ShouldGiveUp(exc, attempt[t])
    THEN LET rel == SemRelease(semValue, semWaiters)
         IN  /\ events' = [events EXCEPT ![t] = @ \o pre \o FailureNotifications]
             /\ completed_count' = NextCompleted(completed_count)
             /\ progressAt' = [progressAt EXCEPT ![t] = NextCompleted(completed_count)]
             /\ progressLog' = Append(progressLog, ProgressEvent(t))
             /\ observer' = ObserverProgress(observer, Condition(t).name)
             /\ failure' = [failure EXCEPT ![t] = exc]
             /\ failOrder' = Append(failOrder, t)
             /\ heldAtFailure' = IF failOrder = <<>> THEN held \ {t}
                                  ELSE heldAtFailure
             /\ semValue' = rel.value
             /\ semWaiters' = rel.waiters
             /\ held' = held \ {t}
             /\ pc' = [pc EXCEPT ![t] = "failed"]
             /\ ready' = ready \o WakeHandles(rel.woken) \o <<DoneHandle(t)>>
             /\ cur' = 0
             /\ UNCHANGED <<retryLog, sleepLog>>
    ELSE LET out == LeaveSemBeforeSleep(t)
         IN  /\ events' = [events EXCEPT ![t] = @ \o pre \o <<"retry">>]
             /\ retryLog' = [retryLog EXCEPT ![t] =
                    @ \o RetryNotifications(t, exc)]
             /\ semValue' = out.value
             /\ semWaiters' = out.waiters
             /\ held' = out.held
             /\ sleepLog' = [sleepLog EXCEPT ![t] = Append(@, backoff[t])]
             /\ pc' = [pc EXCEPT ![t] = "sleeping"]
             /\ ready' = ready \o WakeHandles(out.woken)
             /\ cur' = 0
             /\ observer' = ObserverRetry(observer, Condition(t).name)
             /\ UNCHANGED <<completed_count, progressAt, failure, failOrder,
                            heldAtFailure, progressLog>>

\* As AgentAnswer, the answer of an earlier attempt being kept.
AgentAnswerKept(t, o) ==
    IF agent_result[t] = NoAgentResult
    THEN [attempt |-> attempt[t], tool_calls |-> o.tool_calls]
    ELSE agent_result[t]

\* Line 167: `agent_result = await agent.ask(...)`, the answer of the agent
\* created for this attempt (161).
AgentAnswer(t, o) == [attempt |-> attempt[t], tool_calls |-> o.tool_calls]

\* As JudgeCallsAtGateFailure, the answer being scored ahead of the raise.
JudgeCallsAtGateFailureScored(calls) == calls + 1

\* Lines 184 and 204: the raise of a failed gate leaves the try block
\* ahead of judge.score (215).
JudgeCallsAtGateFailure(calls) == calls

\* Lines 167-215: agent.ask() has returned or raised; gates; judge.score().
AgentReturned(t) ==
    /\ cur = t
    /\ UNCHANGED aggVars
    /\ pc[t] = "agent_ret"
    /\ \E o \in AgentOutcomes :
        LET gate == GateFailure(Condition(t), o.tool_calls)
        IN  IF ~o.ok
            THEN /\ HandleException(t, Exception(t, "agent", o.retriable), <<>>)
                 /\ UNCHANGED <<agent_result, judgeCalls, results>>
            ELSE IF gate # "none"
            THEN /\ HandleException(t, Exception(t, gate, TRUE), <<gate>>)
                 /\ agent_result' = [agent_result EXCEPT ![t] =
                        AgentAnswer(t, o)]
                 /\ judgeCalls' = [judgeCalls EXCEPT ![t] =
                        JudgeCallsAtGateFailure(@)]
                 /\ UNCHANGED results
            ELSE /\ agent_result' = [agent_result EXCEPT ![t] =
                        AgentAnswer(t, o)]
                 /\ judgeCalls' = [judgeCalls EXCEPT ![t] = @ + 1]
                 /\ \E suspends \in BOOLEAN :
                        IF suspends
                        THEN pc' = [pc EXCEPT ![t] = "judge_wait"] /\ cur' = 0
                        ELSE pc' = [pc EXCEPT ![t] = "judge_ret"] /\ cur' = t
                 /\ UNCHANGED <<ready, events, retryLog, sleepLog, failure,
                                failOrder, heldAtFailure, results,
                                completed_count, progressAt, progressLog,
                                observer>>
                 /\ UNCHANGED semVars
    /\ UNCHANGED <<cfg, attempt, backoff, mustCancel, agentCalls>>
    /\ UNCHANGED <<tgVars, runVars>>

\* As AppendRun, the append being left out.
AppendRunDropped(runs, t) == runs

\* results.append(EvaluationRun(...)) of line 221.
AppendRun(runs, t) ==
    Append(runs, [id |-> Triple(t), task |-> t,
                  agent_result |-> agent_result[t],
                  judge_attempt |-> attempt[t]])

\* As SuccessNotifications, the task being cancelled at the progress lock.
SuccessNotificationsCutShort == <<"completed">>

\* As SuccessNotifications, successes being reported when the run ends.
SuccessNotificationsDeferred == <<>>

\* Lines 232-245: what the observer is told of a success.
SuccessNotifications == <<"completed", "progress">>

\* Lines 215-265: judge.score() has returned or raised; on success the
\* result is appended, completion and progress are notified, and the task
\* returns through the end of the `async with sem` block.
JudgeReturned(t) ==
    /\ cur = t
    /\ UNCHANGED aggVars
    /\ pc[t] = "judge_ret"
    /\ \E o \in JudgeOutcomes :
        IF ~o.ok
        THEN /\ HandleException(t, Exception(t, "judge", o.retriable), <<>>)
             /\ UNCHANGED results
        ELSE LET rel == SemRelease(semValue, semWaiters)
             IN  /\ results' = AppendRun(results, t)
                 /\ events' = [events EXCEPT ![t] = @ \o SuccessNotifications]
                 /\ completed_count' = NextCompleted(completed_count)
                 /\ progressAt' = [progressAt EXCEPT ![t] = NextCompleted(completed_count)]
                 /\ progressLog' = Append(progressLog, ProgressEvent(t))
                 /\ observer' = ObserverProgress(observer, Condition(t).name)
                 /\ semValue' = rel.value
                 /\ semWaiters' = rel.waiters
                 /\ held' = held \ {t}
                 /\ pc' = [pc EXCEPT ![t] = "done"]
                 /\ ready' = ready \o WakeHandles(rel.woken) \o <<DoneHandle(t)>>
                 /\ cur' = 0
                 /\ UNCHANGED <<retryLog, sleepLog, failure, failOrder,
                                heldAtFailure>>
    /\ UNCHANGED <<cfg, attempt, backoff, mustCancel, agent_result,
                   agentCalls, judgeCalls>>
    /\ UNCHANGED <<tgVars, runVars>>

\* The timer of asyncio.sleep(backoff) expires.
SleepTimer(t) ==
    /\ cur = 0
    /\ UNCHANGED aggVars
    /\ pc[t] = "sleeping"
    /\ ~mustCancel[t]
    /\ ~InReady(StepHandle(t))
    /\ ready' = Append(ready, StepHandle(t))
    /\ UNCHANGED <<cfg, cur>>
    /\ UNCHANGED <<taskVars, semVars, tgVars, runVars, resVars, obsVars>>

\* As NextBackoff, the multiplier being added.
NextBackoffAdds(b) == b + cfg.backoff_multiplier

\* Line 278: `backoff *= retry_cfg.backoff_multiplier`.
NextBackoff(b) == b * cfg.backoff_multiplier

\* Line 278 and the next iteration of the `for attempt` loop; behind the
\* last iteration the coroutine returns.
SleepResume(t) ==
    /\ Dispatched(StepHandle(t))
    /\ UNCHANGED aggVars
    /\ pc[t] = "sleeping"
    /\ ~mustCancel[t]
    /\ backoff' = [backoff EXCEPT ![t] = NextBackoff(@)]
    /\ IF attempt[t] < cfg.max_attempts
       THEN /\ attempt' = [attempt EXCEPT ![t] = @ + 1]
            /\ pc' = [pc EXCEPT ![t] = "acquire"]
            /\ cur' = t
            /\ ready' = Tail(ready)
       ELSE /\ pc' = [pc EXCEPT ![t] = "done"]
            /\ cur' = 0
            /\ ready' = Append(Tail(ready), DoneHandle(t))
            /\ UNCHANGED attempt
    /\ UNCHANGED <<cfg, mustCancel, agent_result>>
    /\ UNCHANGED <<semVars, tgVars, runVars, resVars, obsVars>>

\* --------------------------------------------------------- cancellation
\* A cancelled task resumes with CancelledError, which no handler of
\* _run_one_triple catches.  (A task is never cancelled ahead of its first
\* step: all first steps are queued before any done-callback.)

\* As GiveBack, the permit of the cancelled waiter being lost.
GiveBackNothing(value, rest) == [value |-> value, waiters |-> rest, woken |-> 0]

\* Semaphore.acquire(), `except CancelledError` with the future not
\* cancelled: `self._value += 1; self._wake_up_next()`.
GiveBack(value, rest) == WakeUpNext(value + 1, rest)

\* CancelledError inside Semaphore.acquire(): a waiter that had already
\* been handed a permit gives it back.
CancelSemWait(t) ==
    /\ Dispatched(StepHandle(t))
    /\ UNCHANGED aggVars
    /\ pc[t] = "sem_wait"
    /\ mustCancel[t]
    /\ LET rest == RemoveWaiter(semWaiters, t)
           w == IF WaiterState(t) = "woken" THEN GiveBack(semValue, rest)
                ELSE [value |-> semValue, waiters |-> rest, woken |-> 0]
       IN  /\ semValue' = w.value
           /\ semWaiters' = w.waiters
           /\ ready' = Tail(ready) \o WakeHandles(w.woken) \o <<DoneHandle(t)>>
    /\ pc' = [pc EXCEPT ![t] = "cancelled"]
    /\ mustCancel' = [mustCancel EXCEPT ![t] = FALSE]
    /\ UNCHANGED <<cfg, cur, attempt, backoff, agent_result, held>>
    /\ UNCHANGED <<tgVars, runVars, resVars, obsVars>>

\* CancelledError at `await agent.ask(...)` or `await judge.score(...)`:
\* it leaves through the `async with sem` block, which releases.
CancelInCall(t) ==
    /\ Dispatched(StepHandle(t))
    /\ UNCHANGED aggVars
    /\ pc[t] \in {"agent_wait", "judge_wait"}
    /\ mustCancel[t]
    /\ LET rel == SemRelease(semValue, semWaiters)
       IN  /\ semValue' = rel.value
           /\ semWaiters' = rel.waiters
           /\ ready' = Tail(ready) \o WakeHandles(rel.woken) \o <<DoneHandle(t)>>
    /\ held' = held \ {t}
    /\ pc' = [pc EXCEPT ![t] = "cancelled"]
    /\ mustCancel' = [mustCancel EXCEPT ![t] = FALSE]
    /\ UNCHANGED <<cfg, cur, attempt, backoff, agent_result>>
    /\ UNCHANGED <<tgVars, runVars, resVars, obsVars>>

\* CancelledError at `await asyncio.sleep(backoff)`.
CancelSleep(t) ==
    /\ Dispatched(StepHandle(t))
    /\ UNCHANGED aggVars
    /\ pc[t] = "sleeping"
    /\ mustCancel[t]
    /\ ready' = Append(Tail(ready), DoneHandle(t))
    /\ pc' = [pc EXCEPT ![t] = "cancelled"]
    /\ mustCancel' = [mustCancel EXCEPT ![t] = FALSE]
    /\ UNCHANGED <<cfg, cur, attempt, backoff, agent_result>>
    /\ UNCHANGED <<semVars, tgVars, runVars, resVars, obsVars>>

\* ------------------------------------------------------ asyncio.TaskGroup
IsInjective(q) == \A i, j \in 1..Len(q) : q[i] = q[j] => i = j

\* The orders in which a set may be iterated.
Orderings(S) == {q \in [1..Cardinality(S) -> S] : IsInjective(q)}

\* As AbortTargets, the other tasks being left to run (as asyncio.gather
\* leaves them).
AbortTargetsNone(tasks) == {}

\* Tasks TaskGroup._abort() cancels: those of the group not yet done.
AbortTargets(tasks) == {u \in tasks : pc[u] \notin Terminal}

\* Task.cancel() cancels the future the task waits for, which schedules
\* the task's wake-up; a task already scheduled is only flagged.
WokenByCancel(tasks) == {u \in AbortTargets(tasks) : ~InReady(StepHandle(u))}

\* TaskGroup._on_task_done(t), the done-callback of every task: the first
\* task that ended with an exception makes the group cancel the other
\* tasks and the task running run().
OnTaskDone(t) ==
    /\ Dispatched(DoneHandle(t))
    /\ UNCHANGED aggVars
    /\ LET left == tgTasks \ {t}
           completes == parentFut = "pending" /\ left = {}
           fails == pc[t] = "failed"
           aborts == fails /\ ~tgAborting
           cancelled == IF aborts THEN AbortTargets(left) ELSE {}
           woken == IF aborts THEN WokenByCancel(left) ELSE {}
       IN  /\ tgTasks' = left
           /\ tgErrors' = IF fails THEN Append(tgErrors, failure[t]) ELSE tgErrors
           /\ tgAborting' = (tgAborting \/ fails)
           /\ mustCancel' = [u \in Trials |-> mustCancel[u] \/ u \in cancelled]
           /\ semWaiters' = [i \in 1..Len(semWaiters) |->
                    IF semWaiters[i].task \in woken /\ semWaiters[i].state = "pending"
                    THEN [semWaiters[i] EXCEPT !.state = "cancelled"]
                    ELSE semWaiters[i]]
           /\ parentFut' = IF completes THEN "done"
                           ELSE IF aborts /\ parentFut = "pending" THEN "cancelled"
                           ELSE parentFut
           /\ \E order \in Orderings(woken) :
                ready' = Tail(ready)
                         \o (IF completes THEN <<ParentHandle>> ELSE <<>>)
                         \o [i \in 1..Len(order) |-> StepHandle(order[i])]
                         \o (IF aborts /\ ~completes /\ parentFut = "pending"
                             THEN <<ParentHandle>> ELSE <<>>)
    /\ UNCHANGED <<cfg, cur, pc, attempt, backoff, agent_result, semValue, held>>
    /\ UNCHANGED <<runVars, resVars, obsVars>>

\* As GroupFinished, run() leaving the group at its first wake-up.
GroupFinishedAtOnce(tasks) == TRUE

\* `while self._tasks` of TaskGroup.__aexit__: run() leaves the group only
\* when no task is left.
GroupFinished(tasks) == tasks = {}

\* run() woken inside TaskGroup.__aexit__ while tasks remain: waits again.
ParentWaitAgain ==
    /\ Dispatched(ParentHandle)
    /\ UNCHANGED aggVars
    /\ ~GroupFinished(tgTasks)
    /\ ready' = Tail(ready)
    /\ parentFut' = "pending"
    /\ UNCHANGED <<cfg, cur, tgTasks, tgErrors, tgAborting>>
    /\ UNCHANGED <<taskVars, semVars, runVars, resVars, obsVars>>

\* As RaiseFromGroup, the exception group itself being re-raised.
RaiseWholeGroup(errors) == [is_group |-> TRUE, exceptions |-> errors]

\* As RaiseFromGroup, the last exception of the group being raised.
RaiseLastOfGroup(errors) == [is_group |-> FALSE, exceptions |-> <<errors[Len(errors)]>>]

\* Lines 103-106: `raise eg.exceptions[0]` inside `except* KEvalError`
\* leaves run() with that one exception.
RaiseFromGroup(errors) == [is_group |-> FALSE, exceptions |-> <<errors[1]>>]

\* As EventsOnAbort, evaluation_completed being emitted on every exit.
EventsOnAbortWithCompleted ==
    <<[event |-> "evaluation_completed", total_runs |-> Len(results)]>>

\* Lines 103-106: the observer is told nothing more when run() aborts.
EventsOnAbort == <<>>

\* run() leaves the TaskGroup with its errors and re-raises.
RunRaise ==
    /\ Dispatched(ParentHandle)
    /\ UNCHANGED aggVars
    /\ GroupFinished(tgTasks)
    /\ tgErrors # <<>>
    /\ ready' = Tail(ready)
    /\ raised' = RaiseFromGroup(tgErrors)
    /\ runState' = "raised"
    /\ runEvents' = runEvents \o EventsOnAbort
    /\ UNCHANGED <<cfg, cur, summary>>
    /\ UNCHANGED <<taskVars, semVars, tgVars, resVars, obsVars>>

\* Lines 108-124: sort, evaluation_completed, RunSummary.
RunReturn ==
    /\ Dispatched(ParentHandle)
    /\ UNCHANGED aggVars
    /\ GroupFinished(tgTasks)
    /\ tgErrors = <<>>
    /\ ready' = Tail(ready)
    /\ results' = SortRuns(results)
    /\ summary' = SortRuns(results)
    /\ runEvents' = Append(runEvents,
            [event |-> "evaluation_completed", total_runs |-> Len(results)])
    /\ runState' = "returned"
    /\ observer' = NoCounters
    /\ UNCHANGED <<cfg, cur, raised, completed_count, progressAt>>
    /\ UNCHANGED <<events, agentCalls, judgeCalls, retryLog, sleepLog,
                   failure, failOrder, heldAtFailure, progressLog>>
    /\ UNCHANGED <<taskVars, semVars, tgVars>>

\* ------------------------------------------------------------ aggregate()
\* Line 48: a run's group key, (sample_idx, condition).
GroupKey(run) == <<run.sample_idx, run.condition>>

\* Position of `key` among the entries of the dict `groups`, 0 if absent.
KeyIndex(groups, key) ==
    IF \E i \in 1..Len(groups) : groups[i].key = key
    THEN CHOOSE i \in 1..Len(groups) : groups[i].key = key
    ELSE 0

\* Lines 47-52: the loop that fills `groups`, a dict, which keeps its keys
\* in the order of their insertion.
RECURSIVE GroupInto(_, _)
GroupInto(groups, runs) ==
    IF runs = <<>> THEN groups
    ELSE LET run == Head(runs)
             at == KeyIndex(groups, GroupKey(run))
         IN  GroupInto(
                IF at = 0
                THEN Append(groups, [key |-> GroupKey(run), runs |-> <<run>>])
                ELSE [groups EXCEPT ![at].runs = Append(@, run)],
                Tail(runs))

\* Inserts `run` behind every run whose repetition_index is not larger.
InsertByRepetition(run, sorted) ==
    LET before == {i \in 1..Len(sorted) :
                     sorted[i].repetition_index <= run.repetition_index}
        k == IF before = {} THEN 0
             ELSE CHOOSE i \in before : \A j \in before : j <= i
    IN  SubSeq(sorted, 1, k) \o <<run>> \o SubSeq(sorted, k + 1, Len(sorted))

\* As SortedByRepetition, the group's runs being kept in input order.
SortedByRepetitionSkipped(group_runs) == group_runs

\* Line 59: sorted(group_runs, key=repetition_index), a stable sort.
RECURSIVE SortedByRepetition(_)
SortedByRepetition(group_runs) ==
    IF group_runs = <<>> THEN <<>>
    ELSE InsertByRepetition(group_runs[Len(group_runs)],
            SortedByRepetition(SubSeq(group_runs, 1, Len(group_runs) - 1)))

\* Lines 69-72: the inner loop over one run's claims.
RECURSIVE AddUnseen(_, _)
AddUnseen(deduped_claims, claims) ==
    IF claims = <<>> THEN deduped_claims
    ELSE AddUnseen(
            IF \E i \in 1..Len(deduped_claims) :
                    deduped_claims[i] = Head(claims)
            THEN deduped_claims
            ELSE Append(deduped_claims, Head(claims)),
            Tail(claims))

\* As DedupedClaims, no claim being dropped as seen.
RECURSIVE DedupedClaimsKeepingRepeats(_, _)
DedupedClaimsKeepingRepeats(deduped_claims, sorted_runs) ==
    IF sorted_runs = <<>> THEN deduped_claims
    ELSE DedupedClaimsKeepingRepeats(
            deduped_claims \o Head(sorted_runs).unverified_claims,
            Tail(sorted_runs))

\* Lines 66-72: the loop over the sorted runs.
RECURSIVE DedupedClaims(_, _)
DedupedClaims(deduped_claims, sorted_runs) ==
    IF sorted_runs = <<>> THEN deduped_claims
    ELSE DedupedClaims(
            AddUnseen(deduped_claims, Head(sorted_runs).unverified_claims),
            Tail(sorted_runs))

\* Lines 55-87: the AggregatedResult of one entry of `groups` (the score
\* statistics are left out).
AggregatedResult(group) ==
    LET sorted_runs == SortedByRepetition(group.runs)
    IN  [sample_idx |-> group.key[1],
         condition |-> group.key[2],
         runs |-> sorted_runs,
         unverified_claims |-> DedupedClaims(<<>>, sorted_runs)]

\* Lines 37-89.
aggregate(runs) ==
    LET groups == GroupInto(<<>>, runs)
    IN  [g \in 1..Len(groups) |-> AggregatedResult(groups[g])]

\* Unverified-claim lists a judge result may carry.
ClaimLists == {<<>>, <<1>>, <<2, 1>>}

\* EvaluationRun, by the fields aggregate() reads.
EvaluationRuns ==
    [sample_idx : {Dataset(2)[i] : i \in 1..2},
     condition : 1..2,
     repetition_index : 0..1,
     unverified_claims : ClaimLists]

\* Lists of runs handed to aggregate().
RunLists == UNION {[1..n -> EvaluationRuns] : n \in 0..MaxRuns}

\* The runner is not involved in a call of aggregate().
IdleConfigs ==
    {c \in GridConfigs :
        /\ Len(c.samples) = 0 /\ Len(c.conditions) = 1
        /\ c.num_repetitions = 1
        /\ c.max_concurrent = 1 /\ c.max_attempts = 1}

AggregateInit ==
    /\ RunnerInit(IdleConfigs)
    /\ aggregate_runs \in RunLists
    /\ aggregate_results = <<>>
    /\ aggregate_returned = FALSE

\* One call of aggregate(runs=...).
Aggregate ==
    /\ ~aggregate_returned
    /\ aggregate_results' = aggregate(aggregate_runs)
    /\ aggregate_returned' = TRUE
    /\ UNCHANGED aggregate_runs
    /\ UNCHANGED <<cfgVars, loopVars, taskVars, semVars, tgVars, runVars,
                   resVars, obsVars>>

\* ------------------------------------ ProgressEvaluationObserver, driven
\* Condition names an event may carry: those of a run, "Overall", and one
\* no run was started with.
EventConditions == {1, 2, Overall, 4}

\* condition_names of evaluation_started: the keys of a dict.
ConditionNameLists ==
    {q \in UNION {[1..n -> {1, 2, Overall}] : n \in 1..2} : IsInjective(q)}

ObserverInit ==
    /\ RunnerInit(IdleConfigs)
    /\ AggregateIdle

ObserverFrame ==
    UNCHANGED <<cfg, runState, ready, cur, taskVars, semVars, tgVars, raised,
                summary, runEvents, resVars, events, agentCalls, judgeCalls,
                retryLog, sleepLog, failure, failOrder, heldAtFailure,
                progressLog, aggVars>>

evaluation_started ==
    /\ \E names \in ConditionNameLists, total_samples \in 0..1,
          num_repetitions \in 1..2 :
            observer' = ObserverStarted(names, total_samples, Len(names),
                                        num_repetitions)
    /\ ObserverFrame

evaluation_completed ==
    /\ observer' = NoCounters
    /\ ObserverFrame

sample_condition_started(condition) ==
    /\ \A k \in DOMAIN observer.inflight : observer.inflight[k] < MaxCount
    /\ observer' = ObserverTrialStarted(observer, condition)
    /\ ObserverFrame

sample_condition_retry(condition) ==
    /\ observer' = ObserverRetry(observer, condition)
    /\ ObserverFrame

evaluation_progress(condition) ==
    /\ \A k \in DOMAIN observer.done : observer.done[k] < MaxCount
    /\ observer' = ObserverProgress(observer, condition)
    /\ ObserverFrame

ObserverNext ==
    \/ evaluation_started
    \/ evaluation_completed
    \/ \E c \in EventConditions : sample_condition_started(c)
    \/ \E c \in EventConditions : sample_condition_retry(c)
    \/ \E c \in EventConditions : evaluation_progress(c)

\* ------------------------------------------------------------------ Next
Next ==
    \/ ConfigLoadFails
    \/ DatasetLoadFails
    \/ RunStart
    \/ \E t \in Trials : TaskStart(t)
    \/ \E t \in Trials : Acquire(t)
    \/ \E t \in Trials : SemWakeup(t)
    \/ \E t \in Trials : StartAttempt(t)
    \/ \E t \in Trials : CallCompletes(t)
    \/ \E t \in Trials : AgentResume(t)
    \/ \E t \in Trials : AgentReturned(t)
    \/ \E t \in Trials : JudgeResume(t)
    \/ \E t \in Trials : JudgeReturned(t)
    \/ \E t \in Trials : SleepTimer(t)
    \/ \E t \in Trials : SleepResume(t)
    \/ \E t \in Trials : CancelSemWait(t)
    \/ \E t \in Trials : CancelInCall(t)
    \/ \E t \in Trials : CancelSleep(t)
    \/ \E t \in Trials : OnTaskDone(t)
    \/ ParentWaitAgain
    \/ RunRaise
    \/ RunReturn

Spec == Init /\ [][Next]_vars

\* run() from its call to the end of the loops that create the tasks.
CreationSpec == InitWith(CreationConfigs) /\ [][RunStart]_vars

\* The observer receiving any sequence of events.
ObserverSpec == ObserverInit /\ [][ObserverNext]_vars

\* aggregate() called once on a list of runs.
AggregateSpec == AggregateInit /\ [][Aggregate]_vars

\* The event loop runs every callback it has scheduled, every pending
\* agent or judge call completes and every sleep timer expires.
FairSpec == InitWith(FairConfigs) /\ [][Next]_vars /\ WF_vars(Next)

TypeOK ==
    /\ cfg \in Configs
    /\ runState \in {"new", "running", "returned", "raised",
                    "config_failed", "load_failed"}
    /\ cur \in 0..GridSize(cfg)
    /\ semValue \in 0..cfg.max_concurrent
    /\ held \subseteq Trials
    /\ \A t \in Trials :
        /\ pc[t] \in {"uncreated", "new", "acquire", "sem_wait", "in_sem",
                      "agent_wait", "agent_ret", "judge_wait", "judge_ret",
                      "sleeping"} \cup Terminal
        /\ attempt[t] \in 0..cfg.max_attempts
        /\ agent_result[t].attempt \in 0..cfg.max_attempts
        /\ agent_result[t].tool_calls \in ToolCallLists
    /\ completed_count \in 0..GridSize(cfg)
    /\ DOMAIN observer.done = DOMAIN observer.total
    /\ DOMAIN observer.inflight = DOMAIN observer.total

\* ================================================================ claims
\* Tasks between acquiring and releasing the semaphore, by their position.
InAttempt ==
    {t \in Trials : pc[t] \in {"in_sem", "agent_wait", "agent_ret",
                               "judge_wait", "judge_ret"}}

\* Waiters that have been handed a permit and have not resumed yet.
WokenWaiters == {i \in 1..Len(semWaiters) : semWaiters[i].state = "woken"}

ResultCount(t) ==
    Cardinality({i \in 1..Len(results) : results[i].id = Triple(t)})

FailureCount(t) ==
    Cardinality({i \in 1..Len(failOrder) : failOrder[i] = t})

ResolutionEvents == {"completed", "failed", "progress"}

Unresolved(t) ==
    /\ ResultCount(t) = 0
    /\ FailureCount(t) = 0
    /\ \A i \in 1..Len(events[t]) : events[t][i] \notin ResolutionEvents

\* Every (sample, condition, repetition) identity of the configured grid.
GridIdentities ==
    {[sample_idx |-> cfg.samples[s],
      condition |-> cfg.conditions[k].name,
      repetition_index |-> r] :
        s \in 1..Len(cfg.samples),
        k \in 1..Len(cfg.conditions),
        r \in 0..(cfg.num_repetitions - 1)}

SummaryIdentities == {summary[i].id : i \in 1..Len(summary)}

RunEnded == runState \in {"returned", "raised"}

\* The configuration or the dataset could not be loaded.
LoadFailed == runState \in {"config_failed", "load_failed"}

\* run() got past loading the dataset.
Loaded == runState \in {"running", "returned", "raised"}

\* C1: in every reachable state the number of trials between acquiring and
\* releasing the semaphore is at most max_concurrent.
C1_PeakWithinMaxConcurrent == Cardinality(InAttempt) <= cfg.max_concurrent

C1_Witness ==
    /\ cfg.max_concurrent = 2
    /\ Cardinality(InAttempt) = 2
    /\ \E t \in Trials : pc[t] = "sem_wait"

\* C2: a trial in its backoff sleep holds no permit, a trial in an attempt
\* holds one, and every permit is either free, held by a trial in an
\* attempt or handed to a waiter about to resume.
C2_GateReleasedDuringBackoff ==
    /\ \A t \in Trials : pc[t] = "sleeping" => t \notin held
    /\ InAttempt = held
    /\ Loaded =>
        semValue + Cardinality(held) + Cardinality(WokenWaiters)
            = cfg.max_concurrent

C2_Witness ==
    /\ cfg.max_concurrent = 1
    /\ \E t, u \in Trials :
        /\ pc[t] = "sleeping"
        /\ retryLog[t] # <<>>
        /\ t < u
        /\ pc[u] = "agent_wait"
        /\ u \in held

\* C3: once a trial has failed terminally, no trial that has not been
\* admitted yet is admitted: no such trial gets its started notification
\* or its first agent call.
C3_NoAdmissionAfterTerminalFailure ==
    [][failOrder # <<>> =>
        \A t \in Trials :
            events[t] = <<>> =>
                events'[t] = <<>> /\ agentCalls'[t] = agentCalls[t]]_vars

\* C4 as stated: when run() raises, every trial that was inside the gate
\* when the first trial failed terminally has run to its own completion.
C4_AdmittedTrialsRunToCompletion ==
    runState = "raised" =>
        \A u \in heldAtFailure : pc[u] \in {"done", "failed"}

\* C4 as amended: once the group aborts, every unfinished trial is
\* cancelled at its next step; when run() raises, every trial that was
\* inside the gate at the first terminal failure has ended and holds no
\* permit, and those cancelled have no result and no completed, failed or
\* progress notification.
C4_AdmittedTrialsEndBeforeRaise ==
    /\ tgAborting =>
        \A u \in Trials : pc[u] \notin Terminal => mustCancel[u]
    /\ runState = "raised" =>
        \A u \in heldAtFailure :
            /\ pc[u] \in Terminal
            /\ u \notin held
            /\ pc[u] = "cancelled" => Unresolved(u)

C4_Witness ==
    /\ runState = "raised"
    /\ \E u \in heldAtFailure : pc[u] = "cancelled" /\ judgeCalls[u] = 1

\* C5: when run() raises, it raises one plain trial failure, not a group.
C5_SinglePlainFailureRaised ==
    runState = "raised" =>
        /\ ~raised.is_group
        /\ Len(raised.exceptions) = 1
        /\ \E t \in Trials : pc[t] = "failed" /\ raised.exceptions[1] = failure[t]

C5_Witness == runState = "raised" /\ Len(tgErrors) >= 2

\* C6: the failure run() raises is that of the trial whose terminal failure
\* came first.
C6_FirstFailureIsRaised ==
    runState = "raised" =>
        /\ raised.exceptions # <<>>
        /\ raised.exceptions[1] = failure[failOrder[1]]

C6_Witness ==
    /\ runState = "raised"
    /\ Len(failOrder) >= 2
    /\ failOrder[1] > failOrder[2]

\* C7 as stated: when run() has ended, every trial of the grid has exactly
\* one result or exactly one terminal failure.
C7_ExactlyOneOutcomePerTrial ==
    RunEnded => \A t \in Trials : ResultCount(t) + FailureCount(t) = 1

\* C7 as amended: no trial ever has more than one result or terminal
\* failure, or both; a returned run has exactly one result for every trial;
\* in an aborted run the trials with neither are exactly those cancelled,
\* and at least one trial has a terminal failure.
C7_AtMostOneOutcomePerTrial ==
    /\ \A t \in Trials : ResultCount(t) + FailureCount(t) <= 1
    /\ runState = "returned" =>
        \A t \in Trials : ResultCount(t) = 1 /\ FailureCount(t) = 0
    /\ runState = "raised" =>
        /\ \A t \in Trials :
            (ResultCount(t) + FailureCount(t) = 0) <=> (pc[t] = "cancelled")
        /\ \E t \in Trials : FailureCount(t) = 1

C7_Witness ==
    /\ runState = "raised"
    /\ \E t, u \in Trials : pc[t] = "cancelled" /\ ResultCount(u) = 1

\* C8: a run in which every trial succeeded at its first attempt returns
\* N*C*R runs, one for every identity of the grid.
C8_AllTriplesPresentOnce ==
    (runState = "returned" /\ \A t \in Trials : agentCalls[t] = 1) =>
        /\ Len(summary) = Len(cfg.samples) * Len(cfg.conditions)
                            * cfg.num_repetitions
        /\ SummaryIdentities = GridIdentities
        /\ \A i, j \in 1..Len(summary) :
                summary[i].id = summary[j].id => i = j

C8_Witness ==
    /\ runState = "returned"
    /\ cfg.num_repetitions = 2
    /\ \A t \in Trials : agentCalls[t] = 1

\* C9: the returned runs are in strictly ascending order of
\* (sample_idx, condition, repetition_index) and cover the grid, whatever
\* the order in which the trials resolved.
C9_RunsSortedAscending ==
    runState = "returned" =>
        /\ \A i \in 1..(Len(summary) - 1) :
                KeyLess(summary[i].id, summary[i + 1].id)
        /\ SummaryIdentities = GridIdentities

C9_Witness ==
    /\ runState = "returned"
    /\ \E t \in Trials : retryLog[t] # <<>>
    /\ \E t, u \in Trials :
        KeyLess(Triple(t), Triple(u)) /\ progressAt[t] > progressAt[u]

\* C10: a trial makes at most max_attempts attempts; its retry
\* notifications carry the attempt numbers 1, 2, ...; a trial ends with a
\* retriable failure only at attempt max_attempts, after max_attempts - 1
\* retries; the failure it ends with is the one of its last attempt, and it
\* is the exception the task group collects.
C10_RetryUntilMaxAttempts ==
    \A t \in Trials :
        /\ agentCalls[t] <= cfg.max_attempts
        /\ Len(retryLog[t]) <= cfg.max_attempts - 1
        /\ \A i \in 1..Len(retryLog[t]) : retryLog[t][i].attempt = i
        /\ pc[t] = "failed" =>
            /\ failure[t].task = t
            /\ failure[t].attempt = agentCalls[t]
            /\ Len(retryLog[t]) = agentCalls[t] - 1
            /\ failure[t].retriable => agentCalls[t] = cfg.max_attempts
            /\ t \notin tgTasks =>
                \E i \in 1..Len(tgErrors) : tgErrors[i] = failure[t]

C10_Witness ==
    \E t \in Trials :
        /\ pc[t] = "failed"
        /\ failure[t].retriable
        /\ cfg.max_attempts = 3
        /\ Len(retryLog[t]) = 2

\* The failure of trial t is terminal and was raised with retriable = false.
FailedNonRetriably(t) == pc[t] = "failed" /\ ~failure[t].retriable

\* C11 as stated: a non-retriable failure is followed by no retry
\* notification and no sleep of its trial, and when run() raises it raises
\* that failure.
C11_NonRetriableFailureIsRaised ==
    /\ \A t \in Trials :
        /\ \A i \in 1..Len(retryLog[t]) : retryLog[t][i].reason.retriable
        /\ FailedNonRetriably(t) =>
            Len(retryLog[t]) = failure[t].attempt - 1
    /\ runState = "raised" =>
        \A t \in Trials :
            FailedNonRetriably(t) => raised.exceptions = <<failure[t]>>

\* C11 as amended: no retry notification and no sleep is ever caused by a
\* non-retriable failure (a trial ending with one at attempt k has the
\* k - 1 retries and sleeps of its earlier attempts only), a run with such
\* a failure never returns a summary, and run() raises that failure when
\* it is the first terminal failure of the run.
C11_NonRetriableFailureAbortsRun ==
    /\ \A t \in Trials :
        /\ Len(sleepLog[t]) = Len(retryLog[t])
        /\ \A i \in 1..Len(retryLog[t]) : retryLog[t][i].reason.retriable
        /\ FailedNonRetriably(t) =>
            /\ Len(retryLog[t]) = failure[t].attempt - 1
            /\ runState # "returned"
            /\ RunEnded /\ failOrder[1] = t =>
                /\ runState = "raised"
                /\ raised.exceptions = <<failure[t]>>

C11_Witness ==
    /\ runState = "raised"
    /\ cfg.max_attempts = 3
    /\ \E t \in Trials :
        /\ FailedNonRetriably(t)
        /\ failure[t].attempt = 2
        /\ raised.exceptions = <<failure[t]>>

\* The notifications about trial t apart from those of the gates.
LifecycleEvents(t) ==
    SelectSeq(events[t], LAMBDA e : e \in {"started", "retry", "completed",
                                           "failed", "progress"})

\* Trial t returned from its second attempt.
SucceededAtSecondAttempt(t) == pc[t] = "done" /\ agentCalls[t] = 2

\* C12 as stated: a trial that fails retriably at its first attempt and
\* succeeds at its second has one retry notification, for attempt 1, and
\* one result, and the run returns a summary.
C12_RetryThenSuccessRunSucceeds ==
    \A t \in Trials :
        SucceededAtSecondAttempt(t) =>
            /\ Len(retryLog[t]) = 1
            /\ retryLog[t][1].attempt = 1
            /\ ResultCount(t) = 1
            /\ RunEnded => runState = "returned"

\* C12 as amended: such a trial has exactly one retry notification, for
\* attempt 1 and caused by a retriable failure, one started notification,
\* and exactly one result; the run returns a summary holding that result
\* unless another trial fails terminally, in which case run() raises.
C12_RetryThenSuccessOneResult ==
    \A t \in Trials :
        SucceededAtSecondAttempt(t) =>
            /\ Len(retryLog[t]) = 1
            /\ retryLog[t][1].attempt = 1
            /\ retryLog[t][1].reason.retriable
            /\ LifecycleEvents(t) = <<"started", "retry", "completed", "progress">>
            /\ ResultCount(t) = 1
            /\ RunEnded =>
                IF failOrder = <<>>
                THEN /\ runState = "returned"
                     /\ Cardinality({i \in 1..Len(summary) :
                                        summary[i].task = t}) = 1
                ELSE runState = "raised"

C12_Witness ==
    /\ runState = "returned"
    /\ cfg.max_attempts = 3
    /\ \E t \in Trials :
        /\ SucceededAtSecondAttempt(t)
        /\ retryLog[t][1].reason.kind = "agent"

RECURSIVE Power(_, _)
Power(b, e) == IF e = 0 THEN 1 ELSE b * Power(b, e - 1)

\* initial_backoff * multiplier^(k-1)
ExpectedBackoff(k) ==
    cfg.initial_backoff_seconds * Power(cfg.backoff_multiplier, k - 1)

\* C13: the k-th retry notification of a trial is the one of attempt k,
\* with k < max_attempts, and the backoff it carries and the duration then
\* slept are both initial_backoff * multiplier^(k-1).
C13_BackoffIsGeometric ==
    \A t \in Trials :
        /\ Len(sleepLog[t]) = Len(retryLog[t])
        /\ \A k \in 1..Len(retryLog[t]) :
            /\ retryLog[t][k].attempt = k
            /\ k < cfg.max_attempts
            /\ retryLog[t][k].backoff_seconds = ExpectedBackoff(k)
            /\ sleepLog[t][k] = ExpectedBackoff(k)

C13_Witness ==
    /\ cfg.initial_backoff_seconds = 2
    /\ cfg.backoff_multiplier = 3
    /\ \E t \in Trials :
        /\ Len(retryLog[t]) = 3
        /\ retryLog[t][1].backoff_seconds = 2
        /\ retryLog[t][2].backoff_seconds = 6
        /\ retryLog[t][3].backoff_seconds = 18
        /\ sleepLog[t] = <<2, 6, 18>>

\* Number of progress notifications about trial t.
ProgressCount(t) ==
    Cardinality({i \in 1..Len(progressLog) : progressLog[i].task = t})

Resolved(t) == pc[t] \in {"done", "failed"}

\* C14: a trial that has resolved, by success or by terminal failure, has
\* caused exactly one progress notification, the last notification about
\* it, whatever the number of its retries; a trial that has not resolved
\* has caused none, so no retry causes one.
C14_OneProgressPerResolvedTrial ==
    \A t \in Trials :
        /\ ProgressCount(t) = IF Resolved(t) THEN 1 ELSE 0
        /\ Len(SelectSeq(events[t], LAMBDA e : e = "progress")) = ProgressCount(t)
        /\ Resolved(t) =>
            /\ events[t][Len(events[t])] = "progress"
            /\ events[t][Len(events[t]) - 1] =
                    IF pc[t] = "done" THEN "completed" ELSE "failed"

C14_Witness ==
    \E t, u \in Trials :
        /\ pc[t] = "failed"
        /\ Len(retryLog[t]) = 1
        /\ ProgressCount(t) = 1
        /\ pc[u] = "done"
        /\ ProgressCount(u) = 1

\* C15: the completed values of the progress notifications are 1, 2, ...
\* in the order the notifications are emitted, and each notification
\* carries total = N*C*R.
C15_ProgressCountsSequential ==
    /\ Len(progressLog) = completed_count
    /\ Len(progressLog) <= GridSize(cfg)
    /\ \A i \in 1..Len(progressLog) :
        /\ progressLog[i].completed = i
        /\ progressLog[i].total =
            Len(cfg.samples) * Len(cfg.conditions) * cfg.num_repetitions

C15_Witness ==
    /\ cfg.max_concurrent = 2
    /\ Len(progressLog) = 3
    /\ progressLog[1].task > progressLog[2].task
    /\ \E i \in 1..3 : events[progressLog[i].task][2] = "failed"

\* C16: for every condition and for Overall, the progress observer's
\* done + inflight never exceeds its total.
C16_DonePlusInflightWithinTotal ==
    \A key \in DOMAIN observer.total :
        observer.done[key] + observer.inflight[key] <= observer.total[key]

\* The tool calls q meet what the condition requires of an agent result.
MeetsRequirements(condition, q) ==
    /\ condition.require_mcp_tool_use => q # <<>>
    /\ (condition.require_mcp_tool_success /\ q # <<>>) =>
            \E i \in 1..Len(q) : ~q[i]

\* The notifications about trial t since its last attempt began.
RECURSIVE SinceLastRetry(_)
SinceLastRetry(q) ==
    IF q = <<>> \/ q[Len(q)] \in {"retry", "started"} THEN <<>>
    ELSE Append(SinceLastRetry(SubSeq(q, 1, Len(q) - 1)), q[Len(q)])

\* C17: every entry of the results was added by an attempt whose agent
\* call returned a result that meets both requirements of the condition
\* and whose judge call returned; the trial has resolved with no failure;
\* attempts that failed added nothing, and no identity has two entries.
C17_ResultOnlyFromSuccessfulAttempt ==
    /\ \A i \in 1..Len(results) :
        LET r == results[i]
        IN  /\ r.id = Triple(r.task)
            /\ pc[r.task] = "done"
            /\ failure[r.task] = NoException
            /\ r.agent_result.attempt = r.judge_attempt
            /\ r.judge_attempt = agentCalls[r.task]
            /\ r.judge_attempt = Len(retryLog[r.task]) + 1
            /\ judgeCalls[r.task] >= 1
            /\ MeetsRequirements(Condition(r.task), r.agent_result.tool_calls)
            /\ SinceLastRetry(events[r.task]) = <<"completed", "progress">>
    /\ \A t \in Trials : ResultCount(t) = IF pc[t] = "done" THEN 1 ELSE 0
    /\ \A i, j \in 1..Len(results) : results[i].id = results[j].id => i = j

C17_Witness ==
    \E i \in 1..Len(results) :
        /\ Condition(results[i].task).require_mcp_tool_use
        /\ Condition(results[i].task).require_mcp_tool_success
        /\ results[i].judge_attempt = 3
        /\ judgeCalls[results[i].task] = 2
        /\ \E k \in 1..2 :
            retryLog[results[i].task][k].reason.kind = "tool_success_absent"

\* The agent call of the current attempt of trial t returned a result.
AgentAnswered(t) == attempt[t] >= 1 /\ agent_result[t].attempt = attempt[t]

\* The failure the current attempt of trial t ended with, if any.
AttemptFailure(t) ==
    IF pc[t] = "failed" /\ failure[t].attempt = attempt[t]
    THEN failure[t]
    ELSE IF /\ retryLog[t] # <<>>
            /\ retryLog[t][Len(retryLog[t])].attempt = attempt[t]
         THEN retryLog[t][Len(retryLog[t])].reason
         ELSE NoException

\* Every failure of trial t so far.
FailuresOf(t) ==
    {retryLog[t][i].reason : i \in 1..Len(retryLog[t])}
    \cup (IF pc[t] = "failed" THEN {failure[t]} ELSE {})

AllFailed(q) == \A i \in 1..Len(q) : q[i]

\* C18: an attempt whose agent result holds no tool call fails with the
\* retriable ToolUseAbsent failure when the condition requires tool use (and
\* so is retried unless it was the last attempt); an attempt with a tool
\* call, and any attempt of a condition that does not require tool use,
\* never fails with it.
C18_ToolUseGate ==
    \A t \in Trials :
        /\ \A e \in FailuresOf(t) :
            e.kind = "tool_use_absent" =>
                e.retriable /\ Condition(t).require_mcp_tool_use
        /\ AgentAnswered(t) =>
            LET e == AttemptFailure(t)
                q == agent_result[t].tool_calls
            IN  /\ (e.kind = "tool_use_absent") <=>
                        (Condition(t).require_mcp_tool_use /\ q = <<>>)
                /\ e.kind = "tool_use_absent" =>
                    /\ SinceLastRetry(
                            SubSeq(events[t], 1, Len(events[t]) - 1))
                            \in {<<"tool_use_absent">>,
                                 <<"tool_use_absent", "failed">>}
                    /\ IF attempt[t] < cfg.max_attempts
                       THEN pc[t] \in {"sleeping", "cancelled"}
                       ELSE pc[t] = "failed"

C18_Witness ==
    \E t \in Trials :
        /\ cfg.max_attempts = 3
        /\ pc[t] = "failed"
        /\ failure[t].kind = "tool_use_absent"
        /\ agent_result[t].tool_calls = <<>>
        /\ retryLog[t][1].reason.kind = "tool_use_absent"
        /\ retryLog[t][2].reason.kind = "tool_success_absent"
        /\ judgeCalls[t] = 0

\* C19: an attempt fails with the retriable ToolSuccessAbsent failure
\* exactly when the condition requires tool success and its agent result
\* holds at least one tool call, all of them failed; an attempt without
\* tool calls never fails with it, and passes both gates unless the
\* condition requires tool use.
C19_ToolSuccessGate ==
    \A t \in Trials :
        /\ \A e \in FailuresOf(t) :
            e.kind = "tool_success_absent" =>
                e.retriable /\ Condition(t).require_mcp_tool_success
        /\ AgentAnswered(t) =>
            LET e == AttemptFailure(t)
                q == agent_result[t].tool_calls
            IN  /\ (e.kind = "tool_success_absent") <=>
                        /\ Condition(t).require_mcp_tool_success
                        /\ q # <<>>
                        /\ AllFailed(q)
                /\ (q = <<>> /\ ~Condition(t).require_mcp_tool_use) =>
                        e.kind \in {"none", "judge"}

C19_Witness ==
    \E t \in Trials :
        /\ Condition(t).require_mcp_tool_success
        /\ ~Condition(t).require_mcp_tool_use
        /\ retryLog[t] # <<>>
        /\ retryLog[t][1].reason.kind = "tool_success_absent"
        /\ pc[t] = "done"
        /\ agent_result[t].tool_calls = <<>>
        /\ agent_result[t].attempt = 2

\* Number of notifications e about trial t.
EventCount(t, e) == Len(SelectSeq(events[t], LAMBDA x : x = e))

\* C20: when run() raises, every trial that resolved, with a result or
\* with a terminal failure, has had its completed or failed notification
\* and then its progress notification delivered, and the observer has been
\* told of as many resolutions as there were.
C20_ResolvedTrialsReportedBeforeRaise ==
    runState = "raised" =>
        /\ \A t \in Trials :
            /\ ResultCount(t) = 1 =>
                /\ EventCount(t, "completed") = 1
                /\ EventCount(t, "failed") = 0
            /\ FailureCount(t) = 1 =>
                /\ EventCount(t, "failed") = 1
                /\ EventCount(t, "completed") = 0
            /\ ResultCount(t) + FailureCount(t) = 1 =>
                /\ EventCount(t, "progress") = 1
                /\ events[t][Len(events[t])] = "progress"
                /\ \E i \in 1..Len(progressLog) : progressLog[i].task = t
        /\ Len(progressLog) = Len(results) + Len(failOrder)

C20_Witness ==
    /\ runState = "raised"
    /\ \E t, u, v \in Trials :
        /\ ResultCount(t) = 1
        /\ progressAt[t] = 1
        /\ FailureCount(u) = 1
        /\ progressAt[u] = 2
        /\ pc[v] = "cancelled"

\* Number of run-level events of the given kind.
RunEventCount(e) ==
    Cardinality({i \in 1..Len(runEvents) : runEvents[i].event = e})

NoTrialActivity ==
    \A t \in Trials :
        events[t] = <<>> /\ agentCalls[t] = 0 /\ judgeCalls[t] = 0

\* C21: evaluation_started is emitted once, ahead of every trial event;
\* evaluation_completed is emitted once, as the last event of a run that
\* returns its summary, after every trial has resolved with a result, and
\* carries total_runs = N*C*R; a run that raises emits no
\* evaluation_completed and returns no summary.
C21_RunEventsOncePerRun ==
    /\ runState = "new" => runEvents = <<>> /\ NoTrialActivity
    /\ Loaded =>
        /\ runEvents[1].event = "evaluation_started"
        /\ RunEventCount("evaluation_started") = 1
    /\ RunEventCount("evaluation_completed") =
            IF runState = "returned" THEN 1 ELSE 0
    /\ runState = "returned" =>
        /\ runEvents[Len(runEvents)].event = "evaluation_completed"
        /\ runEvents[Len(runEvents)].total_runs =
                Len(cfg.samples) * Len(cfg.conditions) * cfg.num_repetitions
        /\ Len(summary) = runEvents[Len(runEvents)].total_runs
        /\ \A t \in Trials : pc[t] = "done" /\ ProgressCount(t) = 1
        /\ raised = NoRaise
    /\ runState = "raised" =>
        /\ summary = <<>>
        /\ raised # NoRaise

C21_Witness ==
    /\ runState = "raised"
    /\ Len(runEvents) = 1
    /\ \E t \in Trials : ResultCount(t) = 1

WaitsForGate(t) == pc[t] = "sem_wait"

\* C22: with every scheduled callback run, every agent and judge call
\* completing and every timer expiring, a run whose dataset loads ends, by
\* returning a summary or by raising, with every trial ended: none is left
\* waiting for the semaphore.
C22_RunTerminates ==
    <>(\/ LoadFailed
       \/ RunEnded /\ \A t \in Trials : pc[t] \in Terminal /\ ~WaitsForGate(t))

C22_Witness ==
    /\ cfg.max_concurrent = 1
    /\ \E t, u \in Trials :
        /\ WaitsForGate(t)
        /\ WaiterState(t) = "pending"
        /\ pc[u] = "agent_wait"
        /\ retryLog[u] # <<>>

\* The triples of the grid as three nested loops visit them: samples, then
\* conditions in the order declared, then repetition indexes 0..R-1.
RepetitionsOf(s, k) ==
    [r \in 1..cfg.num_repetitions |->
        [sample_idx |-> cfg.samples[s],
         condition |-> cfg.conditions[k].name,
         repetition_index |-> r - 1]]

RECURSIVE ConditionsFrom(_, _)
ConditionsFrom(s, k) ==
    IF k > Len(cfg.conditions) THEN <<>>
    ELSE RepetitionsOf(s, k) \o ConditionsFrom(s, k + 1)

RECURSIVE SamplesFrom(_)
SamplesFrom(s) ==
    IF s > Len(cfg.samples) THEN <<>>
    ELSE ConditionsFrom(s, 1) \o SamplesFrom(s + 1)

\* The triples of the tasks in the order run() created them.
CreatedTriples == [i \in 1..Len(ready) |-> Triple(ready[i].task)]

\* C23: once run() has created its tasks there is one task for every
\* triple, N*C*R in all and no two for the same triple, created in the
\* order samples, conditions as declared, repetition index 0..R-1.
C23_OneTaskPerTripleInLoopOrder ==
    (runState = "running" /\ Trials # {}) =>
        /\ Len(ready) = Len(cfg.samples) * Len(cfg.conditions)
                            * cfg.num_repetitions
        /\ \A i \in 1..Len(ready) : ready[i] = StepHandle(i)
        /\ tgTasks = 1..Len(ready)
        /\ \A t \in Trials : pc[t] = "new"
        /\ CreatedTriples = SamplesFrom(1)
        /\ IsInjective(CreatedTriples)
        /\ {CreatedTriples[i] : i \in 1..Len(ready)} = GridIdentities

C23_Witness ==
    /\ runState = "running"
    /\ Len(cfg.samples) = 3
    /\ Len(cfg.conditions) = 2
    /\ cfg.num_repetitions = 2
    /\ Len(ready) = 12
    /\ Triple(5) = [sample_idx |-> Str(10), condition |-> 2,
                    repetition_index |-> 0]
    /\ Triple(8) = [sample_idx |-> Str(10), condition |-> 1,
                    repetition_index |-> 1]

\* Steps of the run taken after a load failure.
StepAfterLoadFailure == LoadFailed /\ vars' # vars

\* C24: a failure to load the configuration or the dataset ends the run
\* with that one error ahead of everything else: no evaluation_started, no
\* task created, no trial notification, no agent or judge call, no retry
\* notification and no sleep; and nothing is attempted again afterwards.
C24_LoadFailureBeforeAnyTrial ==
    /\ [](LoadFailed =>
            /\ runEvents = <<>>
            /\ NoTrialActivity
            /\ \A t \in Trials :
                /\ pc[t] = "uncreated"
                /\ attempt[t] = 0
                /\ retryLog[t] = <<>>
                /\ sleepLog[t] = <<>>
            /\ tgTasks = {} /\ ready = <<>> /\ observer = NoCounters
            /\ Len(raised.exceptions) = 1
            /\ raised.exceptions[1].kind =
                    (IF runState = "config_failed" THEN "config" ELSE "dataset")
            /\ summary = <<>>)
    /\ [][~StepAfterLoadFailure]_vars

C24_Witness ==
    /\ runState = "load_failed"
    /\ raised.exceptions[1].kind = "dataset"
    /\ Trials # {}

\* ---------------------------------------------------------- aggregate()
\* Key of an aggregated result.
ResultKey(res) == <<res.sample_idx, res.condition>>

\* Positions in the input of the runs of a group.
GroupRunIndices(key) ==
    {i \in 1..Len(aggregate_runs) : GroupKey(aggregate_runs[i]) = key}

\* Claims flagged by some run of the group.
FlaggedClaims(key) ==
    UNION {{aggregate_runs[i].unverified_claims[j] :
                j \in 1..Len(aggregate_runs[i].unverified_claims)} :
           i \in GroupRunIndices(key)}

\* Where the group's runs flag claim x: repetition index, position of the
\* run in the input, position of the claim in the run's list.
Occurrences(key, x) ==
    UNION {{<<aggregate_runs[i].repetition_index, i, j>> :
                j \in {k \in 1..Len(aggregate_runs[i].unverified_claims) :
                          aggregate_runs[i].unverified_claims[k] = x}} :
           i \in GroupRunIndices(key)}

LexLess(a, b) ==
    \/ a[1] < b[1]
    \/ a[1] = b[1] /\ a[2] < b[2]
    \/ a[1] = b[1] /\ a[2] = b[2] /\ a[3] < b[3]

\* First place a claim is met when the group's runs are visited by
\* ascending repetition index (runs of equal index in input order).
FirstSeen(key, x) ==
    CHOOSE o \in Occurrences(key, x) :
        \A q \in Occurrences(key, x) : q = o \/ LexLess(o, q)

\* C25: the unverified_claims of each aggregated result holds exactly the
\* claims flagged by the runs of its group, each once, in the order in
\* which they are first met when the group's runs are visited by ascending
\* repetition index.
C25_ClaimsDedupedInFirstOccurrenceOrder ==
    aggregate_returned =>
        \A g \in 1..Len(aggregate_results) :
            LET key == ResultKey(aggregate_results[g])
                c == aggregate_results[g].unverified_claims
            IN  /\ {c[i] : i \in 1..Len(c)} = FlaggedClaims(key)
                /\ \A i, j \in 1..Len(c) :
                    i < j =>
                        /\ c[i] # c[j]
                        /\ LexLess(FirstSeen(key, c[i]), FirstSeen(key, c[j]))

C25_Witness ==
    /\ aggregate_returned
    /\ Len(aggregate_runs) = 2
    /\ GroupKey(aggregate_runs[1]) = GroupKey(aggregate_runs[2])
    /\ aggregate_runs[1].repetition_index = 1
    /\ aggregate_runs[1].unverified_claims = <<2, 1>>
    /\ aggregate_runs[2].repetition_index = 0
    /\ aggregate_runs[2].unverified_claims = <<1>>
    /\ aggregate_results[1].unverified_claims = <<1, 2>>

\* Number of times `run` stands in the list q.
CountIn(q, run) == Cardinality({i \in 1..Len(q) : q[i] = run})

\* Position in the input of the first run of a group.
FirstIndex(key) ==
    CHOOSE i \in GroupRunIndices(key) : \A j \in GroupRunIndices(key) : i <= j

\* C26: aggregate() returns one result per (sample_idx, condition) pair of
\* its input, in the order in which the pairs first occur; every run of
\* the input stands in the runs of the result of its pair, as many times
\* as in the input, and in no other; and the runs of each result are in
\* ascending order of repetition_index.
C26_OneResultPerPairRunsPartitioned ==
    aggregate_returned =>
        /\ {ResultKey(aggregate_results[g]) : g \in 1..Len(aggregate_results)}
                = {GroupKey(aggregate_runs[i]) : i \in 1..Len(aggregate_runs)}
        /\ \A g, h \in 1..Len(aggregate_results) :
            g < h =>
                /\ ResultKey(aggregate_results[g]) # ResultKey(aggregate_results[h])
                /\ FirstIndex(ResultKey(aggregate_results[g]))
                        < FirstIndex(ResultKey(aggregate_results[h]))
        /\ \A g \in 1..Len(aggregate_results) :
            LET res == aggregate_results[g]
            IN  /\ \A i \in 1..Len(res.runs) :
                        GroupKey(res.runs[i]) = ResultKey(res)
                /\ \A i \in GroupRunIndices(ResultKey(res)) :
                        CountIn(res.runs, aggregate_runs[i])
                            = CountIn(aggregate_runs, aggregate_runs[i])
                /\ Len(res.runs) = Cardinality(GroupRunIndices(ResultKey(res)))
                /\ \A i, j \in 1..Len(res.runs) :
                    i < j => res.runs[i].repetition_index
                                <= res.runs[j].repetition_index

C26_Witness ==
    /\ aggregate_returned
    /\ Len(aggregate_runs) = 3
    /\ GroupKey(aggregate_runs[1]) = <<Str(10), 2>>
    /\ GroupKey(aggregate_runs[2]) = <<Str(9), 1>>
    /\ GroupKey(aggregate_runs[3]) = <<Str(10), 2>>
    /\ aggregate_runs[1].repetition_index = 1
    /\ aggregate_runs[3].repetition_index = 0
    /\ Len(aggregate_results) = 2
    /\ aggregate_results[1].runs = <<aggregate_runs[3], aggregate_runs[1]>>
    /\ aggregate_results[2].runs = <<aggregate_runs[2]>>

\* ------------------------------------------------------ in-flight counts
\* Trials inside an attempt: admitted, and not yet resolved or retrying.
Executing ==
    {t \in Trials : pc[t] \in {"agent_wait", "agent_ret",
                                "judge_wait", "judge_ret"}}

ExecutingUnder(name) == {t \in Executing : Condition(t).name = name}

\* C27: every trial that is executing an attempt, its first or a later
\* one, is counted in the in-flight count of its condition and in the
\* Overall one (no condition being named Overall).
C27_ExecutingTrialsCountedInFlight ==
    (runState = "running" /\ cfg \notin OverallConfigs) =>
        /\ \A k \in 1..Len(cfg.conditions) :
            observer.inflight[cfg.conditions[k].name]
                >= Cardinality(ExecutingUnder(cfg.conditions[k].name))
        /\ observer.inflight[Overall] >= Cardinality(Executing)

\* ------------------------------------------------------- order of a retry
\* The step in which trial t is notified as retrying.
RetryNotified(t) == Len(retryLog'[t]) = Len(retryLog[t]) + 1

\* The step in which trial t goes on to its next attempt.
NextAttemptBegins(t) == attempt[t] >= 1 /\ attempt'[t] = attempt[t] + 1

\* The step in which trial t calls the agent.
AgentCalled(t) == agentCalls'[t] = agentCalls[t] + 1

\* C28: the retry notification of attempt k < max_attempts is made by a
\* trial that holds the semaphore, and the same step releases it and
\* starts the sleep; the trial goes on to attempt k + 1 only from that
\* sleep, its timer expired, with the retry of attempt k notified; and the
\* agent of attempt k + 1 is called with the semaphore acquired again.
C28_RetryThenReleaseSleepReacquire ==
    [][\A t \in Trials :
        /\ RetryNotified(t) =>
            /\ t \in held
            /\ attempt[t] < cfg.max_attempts
            /\ retryLog'[t][Len(retryLog'[t])].attempt = attempt[t]
            /\ Len(retryLog'[t]) = attempt[t]
            /\ t \notin held'
            /\ pc'[t] = "sleeping"
            /\ Len(sleepLog'[t]) = attempt[t]
        /\ NextAttemptBegins(t) =>
            /\ pc[t] = "sleeping"
            /\ Dispatched(StepHandle(t))
            /\ t \notin held
            /\ Len(sleepLog[t]) = attempt[t]
            /\ Len(retryLog[t]) = attempt[t]
            /\ retryLog[t][attempt[t]].attempt = attempt[t]
            /\ pc'[t] = "acquire"
            /\ t \notin held'
        /\ AgentCalled(t) =>
            /\ t \in held
            /\ agentCalls'[t] = attempt[t]
            /\ Len(retryLog[t]) = attempt[t] - 1
            /\ Len(sleepLog[t]) = attempt[t] - 1
      ]_vars

C28_Witness ==
    /\ cfg.max_concurrent = 1
    /\ \E t, u \in Trials :
        /\ t # u
        /\ attempt[t] = 2 /\ pc[t] = "agent_wait" /\ held = {t}
        /\ Len(retryLog[t]) = 1 /\ Len(sleepLog[t]) = 1
        /\ agentCalls[u] = 1 /\ pc[u] = "done"

\* --------------------------------------------------- steps of an attempt
\* Failures raised ahead of the judge call: by agent.ask or by a gate.
BeforeJudgeKinds == {"agent", "tool_use_absent", "tool_success_absent"}

\* Attempts of trial t that failed ahead of the judge call.
FailedBeforeJudge(t) ==
    Cardinality({i \in 1..Len(retryLog[t]) :
                    retryLog[t][i].reason.kind \in BeforeJudgeKinds})
    + (IF failure[t].kind \in BeforeJudgeKinds THEN 1 ELSE 0)

\* The step in which trial t calls the judge.
JudgeCalled(t) == judgeCalls'[t] = judgeCalls[t] + 1

\* The step in which an attempt of trial t fails, with the exception.
AttemptFailed(t) == RetryNotified(t) \/ failure'[t] # failure[t]

FailedWith(t) ==
    IF RetryNotified(t) THEN retryLog'[t][Len(retryLog'[t])].reason
    ELSE failure'[t]

\* The step in which the result of trial t is appended.
ResultAssembled(t) ==
    /\ Len(results') = Len(results) + 1
    /\ results'[Len(results')].task = t

\* C29: the judge is called in the step in which the agent's answer of
\* the same attempt has passed both gates, and in no attempt that failed
\* at the agent or at a gate; a result is appended in the step in which
\* the judge of the same attempt has returned; the step in which an
\* attempt fails calls no judge and appends no result.
C29_AttemptStepsShortCircuit ==
    /\ [](\A t \in Trials :
            judgeCalls[t] + FailedBeforeJudge(t) <= agentCalls[t])
    /\ [][\A t \in Trials :
            /\ JudgeCalled(t) =>
                /\ pc[t] = "agent_ret"
                /\ agentCalls[t] = attempt[t]
                /\ agent_result'[t].attempt = attempt[t]
                /\ MeetsRequirements(Condition(t), agent_result'[t].tool_calls)
                /\ ~AttemptFailed(t)
                /\ results' = results
            /\ AttemptFailed(t) =>
                /\ judgeCalls' = judgeCalls
                /\ results' = results
                /\ FailedWith(t).attempt = attempt[t]
                /\ IF FailedWith(t).kind \in BeforeJudgeKinds
                   THEN pc[t] = "agent_ret"
                   ELSE pc[t] = "judge_ret" /\ FailedWith(t).kind = "judge"
            /\ ResultAssembled(t) =>
                /\ pc[t] = "judge_ret"
                /\ agent_result[t].attempt = attempt[t]
                /\ results'[Len(results')].judge_attempt = attempt[t]
                /\ results'[Len(results')].agent_result = agent_result[t]
                /\ ~AttemptFailed(t)
       ]_vars

C29_Witness ==
    \E t \in Trials :
        /\ pc[t] = "failed"
        /\ attempt[t] = 3
        /\ retryLog[t][1].reason.kind = "tool_use_absent"
        /\ retryLog[t][2].reason.kind = "judge"
        /\ failure[t].kind = "agent"
        /\ judgeCalls[t] = 1
        /\ ResultCount(t) = 0

\* ------------------------------------------------------ the floor at zero
\* C30: whatever events the observer has received, no in-flight count, of
\* a condition or Overall, is below 0.
C30_InflightNeverNegative ==
    \A k \in DOMAIN observer.inflight : observer.inflight[k] >= 0

\* Progress events of condition 2 came in with none of its trials started
\* (the Overall count, raised by two trials of condition 1, is back at 0).
C30_Witness ==
    /\ DOMAIN observer.inflight = {1, 2, Overall}
    /\ observer.inflight[1] = 2
    /\ observer.inflight[2] = 0
    /\ observer.inflight[Overall] = 0
    /\ observer.done[1] = 0
    /\ observer.done[2] = 2

\* ------------------------------------------------- effect of a retry event
Max0(n) == IF n > 0 THEN n ELSE 0

\* The counters after a retry event of `condition`, as stated: in-flight
\* one lower, not below 0, under the condition and under Overall, and
\* nothing else changed.
RetryEffect(condition) ==
    /\ DOMAIN observer'.inflight = DOMAIN observer.inflight
    /\ \A k \in DOMAIN observer.inflight :
        observer'.inflight[k] =
            IF k \in {condition, Overall}
            THEN Max0(observer.inflight[k] - 1)
            ELSE observer.inflight[k]
    /\ observer'.done = observer.done
    /\ observer'.total = observer.total

\* C31: a retry event lowers the in-flight count of its condition and of
\* Overall by one, not below 0, and changes no done count, no total and no
\* in-flight count of another condition.
C31_RetryDecrementsInflightByOne ==
    [][\A c \in EventConditions : sample_condition_retry(c) => RetryEffect(c)]_vars

\* ------------------------------------------------ started notifications
\* The step in which trial t is notified as started.
StartedNotified(t) == EventCount(t, "started")' = EventCount(t, "started") + 1

\* Total of the notifications `e` over all trials.
TotalEvents(e) ==
    Cardinality({<<t, i>> \in Trials \X (1..(3 * MaxLoad + 2)) :
                    i <= Len(events[t]) /\ events[t][i] = e})

\* C32: a trial is notified as started once, as its first notification,
\* in the step that begins its first attempt with the semaphore held, and
\* by no later attempt; a run that returns its summary has notified
\* N*C*R trials as started and as many as completed.
C32_StartedOncePerAdmittedTrial ==
    /\ [](\A t \in Trials :
            /\ EventCount(t, "started") = (IF agentCalls[t] >= 1 THEN 1 ELSE 0)
            /\ events[t] # <<>> => events[t][1] = "started")
    /\ [](runState = "returned" =>
            /\ TotalEvents("started") = GridSize(cfg)
            /\ TotalEvents("completed") = GridSize(cfg))
    /\ [][\A t \in Trials :
            StartedNotified(t) =>
                /\ attempt[t] = 1
                /\ agentCalls[t] = 0
                /\ t \in held /\ t \in held'
       ]_vars

C32_Witness ==
    /\ runState = "returned"
    /\ GridSize(cfg) = 2
    /\ \E t \in Trials :
        /\ attempt[t] = 2
        /\ EventCount(t, "started") = 1
        /\ EventCount(t, "retry") = 1

\* ------------------------------------------- order of a trial's events
GateEvents == {"tool_use_absent", "tool_success_absent"}

\* Where a trial stands after one more notification `e`, from `at`:
\* "init" (nothing notified), "running" (started, every failure so far
\* retried), "gated" (a gate has failed), "resolved" (completed or failed),
\* "reported" (progress notified); "bad" for a notification out of order.
AfterEvent(at, e) ==
    CASE at = "init" /\ e = "started" -> "running"
      [] at = "running" /\ e \in GateEvents -> "gated"
      [] at = "running" /\ e = "retry" -> "running"
      [] at = "running" /\ e \in {"completed", "failed"} -> "resolved"
      [] at = "gated" /\ e = "retry" -> "running"
      [] at = "gated" /\ e = "failed" -> "resolved"
      [] at = "resolved" /\ e = "progress" -> "reported"
      [] OTHER -> "bad"

RECURSIVE AfterEvents(_, _)
AfterEvents(at, q) ==
    IF q = <<>> THEN at ELSE AfterEvents(AfterEvent(at, Head(q)), Tail(q))

\* The gate events of trial t stand right ahead of the retry or failure
\* they caused: the i-th retry after a gate event has that gate as reason.
GateEventsMatchReasons(t) ==
    \A i \in 1..Len(events[t]) :
        events[t][i] \in GateEvents =>
            /\ i < Len(events[t])
            /\ LET n == Cardinality({j \in 1..i : events[t][j] = "retry"})
               IN  IF events[t][i + 1] = "retry"
                   THEN retryLog[t][n + 1].reason.kind = events[t][i]
                   ELSE /\ events[t][i + 1] = "failed"
                        /\ failure[t].kind = events[t][i]

\* C33: the notifications about a trial are: started; then its retries,
\* the i-th carrying attempt i; then completed or failed, one of them and
\* once; then its progress; a tool-use-absent or tool-success-absent
\* notification stands right ahead of the retry or failed notification of
\* the attempt it failed.
C33_TrialEventsInOrder ==
    \A t \in Trials :
        /\ AfterEvents("init", events[t]) \in {"init", "running", "reported"}
        /\ EventCount(t, "completed") + EventCount(t, "failed") <= 1
        /\ EventCount(t, "retry") = Len(retryLog[t])
        /\ \A i \in 1..Len(retryLog[t]) : retryLog[t][i].attempt = i
        /\ GateEventsMatchReasons(t)
        /\ pc[t] = "done" =>
                EventCount(t, "completed") = 1 /\ EventCount(t, "progress") = 1
        /\ pc[t] = "failed" =>
                EventCount(t, "failed") = 1 /\ EventCount(t, "progress") = 1

C33_Witness ==
    \E t \in Trials :
        events[t] = <<"started", "tool_use_absent", "retry",
                      "tool_success_absent", "failed", "progress">>

\* --------------------------------------- in-flight count and the semaphore
\* C34: while the run is under way the Overall in-flight count is at most
\* the number of trials inside the semaphore block, hence at most
\* max_concurrent.
C34_InflightWithinGateHolders ==
    runState = "running" =>
        /\ observer.inflight[Overall] <= Cardinality(held)
        /\ observer.inflight[Overall] <= cfg.max_concurrent

\* ------------------------------------------- Overall against the conditions
\* Sum of the counts of `d` under the keys of S.
RECURSIVE SumOver(_, _)
SumOver(d, S) ==
    IF S = {} THEN 0
    ELSE LET k == CHOOSE x \in S : TRUE
         IN  d[k] + SumOver(d, S \ {k})

ConditionNames == {cfg.conditions[k].name : k \in 1..Len(cfg.conditions)}

\* C35: while the run is under way the Overall in-flight count is the sum
\* of the in-flight counts of the conditions (none being named Overall).
C35_OverallInflightIsSumOfConditions ==
    (runState = "running" /\ cfg \notin OverallConfigs) =>
        observer.inflight[Overall] = SumOver(observer.inflight, ConditionNames)

\* --------------------------------------------- done counts and `completed`
\* `completed` of the latest evaluation_progress event, 0 ahead of the first.
LastCompleted ==
    IF progressLog = <<>> THEN 0 ELSE progressLog[Len(progressLog)].completed

\* C36: from evaluation_started until the counters are cleared at the end
\* of a run, the observer's Overall done count is the `completed` of the
\* latest evaluation_progress event and the sum of the done counts of the
\* conditions.
C36_OverallDoneTracksCompleted ==
    runState \in {"running", "raised"} =>
        /\ observer.done[Overall] = LastCompleted
        /\ observer.done[Overall] = SumOver(observer.done, ConditionNames)

\* ---------------------------------------------------- permits conserved
\* Trials that own a permit: those inside the `async with sem` block and
\* the waiters whose acquire() has been handed one and has yet to return.
PermitHolders ==
    held \cup {semWaiters[i].task : i \in WokenWaiters}

\* Positions of a trial outside every attempt.
OutsideAttempt == {"uncreated", "new", "acquire", "sleeping"} \cup Terminal

\* C37: free permits plus the trials owning one make max_concurrent; a
\* trial that has left an attempt, by its result, by a retry, by a
\* terminal failure or by cancellation, owns none; and when run() has
\* returned or raised every permit is free and nobody waits.
C37_PermitsConserved ==
    /\ Loaded =>
        /\ semValue >= 0
        /\ semValue + Cardinality(PermitHolders) = cfg.max_concurrent
    /\ \A t \in Trials : pc[t] \in OutsideAttempt => t \notin PermitHolders
    /\ RunEnded =>
        /\ semValue = cfg.max_concurrent
        /\ PermitHolders = {}
        /\ semWaiters = <<>>

\* An aborted run of max_concurrent = 1 with a trial cancelled ahead of
\* its first agent call.
C37_Witness ==
    /\ runState = "raised"
    /\ cfg.max_concurrent = 1
    /\ \E t, u \in Trials :
        /\ pc[t] = "failed"
        /\ pc[u] = "cancelled" /\ agentCalls[u] = 0

\* ------------------------------------------------- nothing after the end
\* What a trial task still running could do after the end of run(): call
\* the agent or the judge, begin an attempt, sleep, notify the observer,
\* append a result.
TrialActivity ==
    <<agentCalls, judgeCalls, attempt, sleepLog, retryLog, events,
      progressLog, runEvents, results, observer, pc>>

\* C38: when run() has returned or raised every trial task has ended, no
\* callback is left scheduled, and no step of the run follows: no agent or
\* judge call, no further attempt of a trial in backoff, no notification.
C38_NothingRunsAfterRunEnds ==
    /\ [](RunEnded =>
            /\ \A t \in Trials : pc[t] \in Terminal
            /\ tgTasks = {}
            /\ ready = <<>> /\ cur = 0)
    /\ [][RunEnded => UNCHANGED TrialActivity]_vars

\* A raised run one of whose trials was cancelled in its backoff sleep.
C38_Witness ==
    /\ runState = "raised"
    /\ \E u \in Trials :
        /\ pc[u] = "cancelled"
        /\ attempt[u] = 1
        /\ Len(sleepLog[u]) = 1
        /\ agentCalls[u] = 1

\* ---------------------------------------------- resolution is one step
\* C39: in every state, of aborted runs too, a trial whose result has been
\* appended has been notified as completed, and a trial notified as
\* completed or failed has had its progress notified; the progress events
\* are as many as the trials so notified.
C39_ResolutionAtomic ==
    /\ \A t \in Trials :
        /\ ResultCount(t) = EventCount(t, "completed")
        /\ FailureCount(t) = EventCount(t, "failed")
        /\ EventCount(t, "completed") + EventCount(t, "failed")
                = EventCount(t, "progress")
    /\ Len(progressLog) = completed_count
    /\ Len(progressLog) =
            Cardinality({t \in Trials : EventCount(t, "progress") = 1})

\* An aborted run with a trial cancelled inside judge.score.
C39_Witness ==
    /\ runState = "raised"
    /\ \E t, u \in Trials :
        /\ pc[t] = "failed" /\ EventCount(t, "progress") = 1
        /\ pc[u] = "cancelled"
        /\ judgeCalls[u] = 1
        /\ ResultCount(u) = 0
        /\ events[u] = <<"started">>

\* ------------------------------------------- a retry starts from the agent
\* C40: every attempt begins with a call of the agent, so the judge has
\* never been called more often than the agent and is called only on the
\* answer the agent gave in the same attempt, also after a judge failure;
\* a result pairs the agent's answer and the judge's score of one attempt,
\* the last of its trial.
C40_RetryRestartsFromAgent ==
    /\ [](\A t \in Trials :
            /\ judgeCalls[t] <= agentCalls[t]
            /\ agentCalls[t] \in {attempt[t] - 1, attempt[t]}
            /\ agentCalls[t] = attempt[t] - 1 =>
                    pc[t] \in {"acquire", "sem_wait", "in_sem", "cancelled"})
    /\ [](\A i \in 1..Len(results) :
            /\ results[i].agent_result.attempt = results[i].judge_attempt
            /\ results[i].judge_attempt = attempt[results[i].task]
            /\ agentCalls[results[i].task] = attempt[results[i].task])
    /\ [][\A t \in Trials :
            JudgeCalled(t) =>
                /\ agentCalls[t] = attempt[t]
                /\ judgeCalls[t] < agentCalls[t]
                /\ agent_result'[t].attempt = attempt[t]
       ]_vars

\* A result of attempt 2, attempt 1 having failed at the judge.
C40_Witness ==
    \E i \in 1..Len(results) :
        LET t == results[i].task
        IN  /\ results[i].judge_attempt = 2
            /\ results[i].agent_result.attempt = 2
            /\ retryLog[t][1].reason.kind = "judge"
            /\ agentCalls[t] = 2 /\ judgeCalls[t] = 2

====
